---------------------------- MODULE Spec2Model ----------------------------
(***************************************************************************)
(* State-machine model of tsm-cli's multi-repository synchronized replace  *)
(* engine (sync-replace): the persisted Session State and the commands     *)
(* that read and write it, the Commit/Push Orchestrator, the Batch Command *)
(* Runner, the Match Finder, the Interactive Review Engine and the         *)
(* Replacement Applier.                                                    *)
(*                                                                         *)
(* Spec        the session commands over the persisted Session State      *)
(* SpecRun     the worker pool of syncReplaceRun                           *)
(* SpecFind    findMatches as a pure function over bounded file contents   *)
(* SpecReplace the review/apply loop of syncReplace over one repository    *)
(* SpecApply   applyReplacements over bounded contents and approved spans  *)
(* SpecHistory the input history of the prompts                            *)
(* SpecArgs    the argument handling of the sync-replace command           *)
(* SpecDisplay the match display of the interactive review of one match    *)
(* SpecVariant findMatches and applyReplacements of the two source variants *)
(* SpecSyncCmd syncCmd: runCommand over the selected repositories and the  *)
(*             final commit and push                                       *)
(***************************************************************************)
EXTENDS Integers, Sequences, FiniteSets, TLC

(***************************************************************************)
(* Bounds of the model.                                                    *)
(***************************************************************************)
\* number of repositories of the team
NumRepos == 2

\* repository names; Object.keys order is modelled as ascending order
Repos == 1..NumRepos

\* the relative file paths a repository can hold
Files == {"a.ts", "b.ts"}

(***************************************************************************)
(* Generic helpers.                                                        *)
(***************************************************************************)
Range(s) == {s[i] : i \in DOMAIN s}

Min(a, b) == IF a < b THEN a ELSE b

Max(a, b) == IF a > b THEN a ELSE b

NoDup(s) == \A i, j \in DOMAIN s : i # j => s[i] # s[j]

\* the elements of set S as a sequence in ascending order
RECURSIVE SortedSeq(_)
SortedSeq(S) ==
    IF S = {} THEN <<>>
    ELSE LET m == CHOOSE x \in S : \A y \in S : x <= y
         IN <<m>> \o SortedSeq(S \ {m})

\* the elements of s that satisfy membership in S, in the order of s
RECURSIVE FilterIn(_, _)
FilterIn(s, S) ==
    IF s = <<>> THEN <<>>
    ELSE (IF Head(s) \in S THEN <<Head(s)>> ELSE <<>>) \o FilterIn(Tail(s), S)

\* all sequences over S without a repeated element
NoDupSeqs(S) == {s \in UNION {[1..n -> S] : n \in 0..Cardinality(S)} : NoDup(s)}

(***************************************************************************)
(* Session State: {modifiedFiles: Record<repoName, string[]>}.  A Record   *)
(* is modelled as a function whose domain is its key set; Object.keys      *)
(* iterates it in ascending repository order.                              *)
(***************************************************************************)
VARIABLES
    modifiedFiles,      \* the Session State file on disk (sync-replace-state.json)
    pc,                 \* position of the running command, "idle" between commands
    state,              \* the Session State the running command loaded at its start
    repos,              \* result of getAllRepos in the running command
    todo,               \* repositories the running command's loop has not visited yet
    reposWithChanges,   \* syncReplaceCommit: repositories whose diff was shown
    updatedModifiedFiles, \* the in-memory state the running command is building
    gitLog,             \* per repository, the git operations of the last commit and
                        \* whether each succeeded
    successfulRepos,    \* syncReplaceCommit: repositories pushed
    failedRepos,        \* syncReplaceCommit: repositories whose add/commit/push threw
    events,             \* confirmations answered and diffs shown by the last commit
    checkedOut,         \* syncReplaceReview: <<repository, file>> reverted by checkout
    lastOp              \* how the last command ended

sessionVars == <<modifiedFiles, pc, state, repos, todo, reposWithChanges,
                 updatedModifiedFiles, gitLog, successfulRepos, failedRepos,
                 events, checkedOut, lastOp>>

EmptyState == [r \in {} |-> <<>>]

NoLog == [r \in Repos |-> <<>>]

\* loadState
loadState == modifiedFiles

\* Object.keys(state.modifiedFiles)
repoNames(s) == SortedSeq(DOMAIN s)

SessionInit ==
    /\ modifiedFiles = EmptyState
    /\ pc = "idle"
    /\ state = EmptyState
    /\ repos = {}
    /\ todo = <<>>
    /\ reposWithChanges = <<>>
    /\ updatedModifiedFiles = EmptyState
    /\ gitLog = NoLog
    /\ successfulRepos = {}
    /\ failedRepos = {}
    /\ events = <<>>
    /\ checkedOut = {}
    /\ lastOp = "none"

\* the locals of a command that is not syncReplaceCommit
NoCommitLocals ==
    /\ reposWithChanges' = <<>>
    /\ gitLog' = NoLog
    /\ successfulRepos' = {}
    /\ failedRepos' = {}
    /\ events' = <<>>

\* the locals every command starts with
FreshLocals ==
    /\ NoCommitLocals
    /\ repos' = {}
    /\ checkedOut' = {}

(***************************************************************************)
(* State of the Batch Command Runner (syncReplaceRun).                     *)
(***************************************************************************)
VARIABLES
    runPc,          \* position of syncReplaceRun
    statuses,       \* per tracked repository: pending, running, done or failed
    queue,          \* the repositories no worker has taken yet
    workers,        \* per worker: the repository it awaits, or that it resumed or exited
    doneCount,      \* number of finished commands
    failedOutputs,  \* { repo, stdout, stderr } of the commands that exited non-zero
    started,        \* the repositories runOne was called with, in order
    exitCodes,      \* per repository whose command exited: result.exitCode
    summary         \* what is logged under "Failed:" after the workers

runVars == <<runPc, statuses, queue, workers, doneCount, failedOutputs, started,
             exitCodes, summary>>

\* the runner is not in use
RunIdle ==
    /\ runPc = "off"
    /\ statuses = <<>>
    /\ queue = <<>>
    /\ workers = <<>>
    /\ doneCount = 0
    /\ failedOutputs = <<>>
    /\ started = <<>>
    /\ exitCodes = <<>>
    /\ summary = <<>>

(***************************************************************************)
(* State of the Match Finder applied to one file.  A file content is the   *)
(* sequence of its lines (content.split('\n'), never empty), a line and a  *)
(* pattern are sequences of characters.                                    *)
(***************************************************************************)
VARIABLES
    content,        \* lines of the file searched
    startPattern,   \* the start pattern
    endPattern,     \* the end pattern, or undefined
    found           \* result of findMatches, and the lines its scan examined

findVars == <<content, startPattern, endPattern, found>>

\* endPattern: string | undefined
undefined == <<"undefined">>

\* findMatches was not called
NotFound == [done |-> FALSE, matches |-> <<>>, visited |-> <<>>]

\* the finder is not in use
FindIdle ==
    /\ content = <<>>
    /\ startPattern = <<>>
    /\ endPattern = undefined
    /\ found = NotFound

(***************************************************************************)
(* State of syncReplace: the loop over the selected repositories, the      *)
(* Interactive Review Engine and applyApprovedChanges.                     *)
(***************************************************************************)
VARIABLES
    rpc,                    \* position of syncReplace: "off", "loop", "review", "write",
                            \* "done", or "exit" after process.exit
    params,                 \* the arguments of syncReplace
    linesLeft,              \* lines of file content the repositories to come may have
    repo,                   \* name of the repository of the loop, 0 before the first
    changes,                \* the FileChanges of the repository
    changeIdx,              \* position of the loop over changes
    matchIdx,               \* position of the loop over change.matches
    currentStartLine,       \* boundaries shown by interactiveMatchReview
    currentEndLine,
    undoStack,              \* Array<{ start, end }>
    extraLines,             \* ExtraLinePattern[]
    approvedMatchesByFile,  \* Map<string, MatchResult[]>: entries in insertion order
    decisions,              \* result.action of the matches of the repository, in order
    written                 \* the files written by Bun.write, in order

replVars == <<rpc, params, linesLeft, repo, changes, changeIdx, matchIdx,
              currentStartLine, currentEndLine, undoStack, extraLines,
              approvedMatchesByFile, decisions, written>>

\* syncReplace is not in use
ReplaceIdle ==
    /\ rpc = "off"
    /\ params = <<>>
    /\ linesLeft = 0
    /\ repo = 0
    /\ changes = <<>>
    /\ changeIdx = 0
    /\ matchIdx = 0
    /\ currentStartLine = 0
    /\ currentEndLine = 0
    /\ undoStack = <<>>
    /\ extraLines = <<>>
    /\ approvedMatchesByFile = <<>>
    /\ decisions = <<>>
    /\ written = <<>>

(***************************************************************************)
(* State of the Replacement Applier called on its own: applyReplacements   *)
(* for one file and the spans approved in it, and findMatches on what it   *)
(* returned.                                                               *)
(***************************************************************************)
VARIABLES
    applyArgs,      \* the arguments of applyReplacements, with the end pattern
    newContent,     \* what applyReplacements returned
    refound         \* findMatches on the new content

applyVars == <<applyArgs, newContent, refound>>

\* applyReplacements was not called
NotApplied == [done |-> FALSE, result |-> <<>>, copied |-> {}]

\* the applier is not in use
ApplyIdle ==
    /\ applyArgs = <<>>
    /\ newContent = NotApplied
    /\ refound = NotFound

(***************************************************************************)
(* State of an Input History field: the entries of one field of            *)
(* sync-replace-history.json and the calls of addToHistory on it.          *)
(***************************************************************************)
VARIABLES
    historyEntries, \* the entries of the field, most recent first
    lastValue,      \* the value of the last call of addToHistory
    freshCount,     \* number of distinct non-blank values entered so far
    readdCount      \* number of times an entry of the field was entered again

histVars == <<historyEntries, lastValue, freshCount, readdCount>>

\* no value was entered
HistoryIdle ==
    /\ historyEntries = <<>>
    /\ lastValue = <<>>
    /\ freshCount = 0
    /\ readdCount = 0

(***************************************************************************)
(* State of the commands that take a required query or command string:     *)
(* syncCmd, syncFileAcrossRepos and queryForRelevantRepos.                 *)
(***************************************************************************)
VARIABLES
    calledFn,       \* the function called, "none" when none is
    callArgs,       \* its arguments query and cmd, a string or undefined
    argPc,          \* position in the function
    effects         \* what it did so far: listings, clones or pulls, commands, writes,
                    \* git operations

argVars == <<calledFn, callArgs, argPc, effects>>

\* none of the functions is called
ArgsIdle ==
    /\ calledFn = "none"
    /\ callArgs = <<>>
    /\ argPc = "off"
    /\ effects = <<>>

(***************************************************************************)
(* State of the review display of one match: what render wrote to the      *)
(* terminal, what clearDisplay erased, and what the applier makes of the   *)
(* match once it is accepted.                                              *)
(***************************************************************************)
VARIABLES
    dpc,                \* "off", "start" before the first render, "shown", "raised"
                        \* when render threw, "applied" or "skipped"
    dispArgs,           \* arguments of interactiveMatchReview
    shownStart,         \* currentStartLine
    shownEnd,           \* currentEndLine
    shownStack,         \* undoStack
    displayLines,       \* what buildMatchDisplay returned to the last render
    displayLineCount,   \* displayLineCount
    termBefore,         \* terminal lines of the render before the last clearDisplay
    termErased,         \* terminal lines the last clearDisplay erased
    termWritten,        \* terminal lines the last render wrote
    dispApplied         \* what applyReplacements made of the accepted match

dispVars == <<dpc, dispArgs, shownStart, shownEnd, shownStack, displayLines,
              displayLineCount, termBefore, termErased, termWritten, dispApplied>>

\* no match is displayed
DisplayIdle ==
    /\ dpc = "off"
    /\ dispArgs = <<>>
    /\ shownStart = 0
    /\ shownEnd = 0
    /\ shownStack = <<>>
    /\ displayLines = <<>>
    /\ displayLineCount = 0
    /\ termBefore = 0
    /\ termErased = 0
    /\ termWritten = 0
    /\ dispApplied = NotApplied

(***************************************************************************)
(* State of syncCmd after the repositories were selected: runCommand over  *)
(* the target repositories and finalCheckAndCommitPush.                    *)
(***************************************************************************)
VARIABLES
    syncPc,         \* position of syncCmd: "off", "run", "summary", "final", "done"
    syncArgs,       \* force, and the relevant and target repositories
    toVisit,        \* repo followed by otherRepos of the runCommand call to come
    results,        \* what the runCommand calls returned so far: [name, outcome] pairs
    syncLog         \* commands run, questions asked with their answers, git calls

cmdVars == <<syncPc, syncArgs, toVisit, results, syncLog>>

\* syncCmd is not in use
SyncCmdIdle ==
    /\ syncPc = "off"
    /\ syncArgs = <<>>
    /\ toVisit = <<>>
    /\ results = <<>>
    /\ syncLog = <<>>

(***************************************************************************)
(* State of the comparison of the two sync-replace variants: findMatches   *)
(* or applyReplacements of the simpler one (actions/sync-replace) and of   *)
(* the fuller one, called with the same arguments.                         *)
(***************************************************************************)
VARIABLES
    subArgs,        \* the function called, "findMatches" or "applyReplacements", and
                    \* its arguments
    simpleOut,      \* what the simpler variant returned
    fullerOut       \* what the fuller variant returned

variantVars == <<subArgs, simpleOut, fullerOut>>

\* a variant was not called
NotCalled == [done |-> FALSE, value |-> <<>>]

\* no variant is called
VariantIdle ==
    /\ subArgs = <<>>
    /\ simpleOut = NotCalled
    /\ fullerOut = NotCalled

\* variables of the other specifications, constant under Spec
otherThanSession == <<runVars, findVars, replVars, applyVars, histVars, argVars, dispVars, cmdVars, variantVars>>

\* mutant of SetAddAll: the elements are pushed as to an array
SetAddAllAsArray(set, s) == set \o s

\* Set insertion: append to an insertion-ordered Set the elements of s not yet in it
RECURSIVE SetAddAll(_, _)
SetAddAll(set, s) ==
    IF s = <<>> THEN set
    ELSE SetAddAll(IF Head(s) \in Range(set) THEN set ELSE Append(set, Head(s)), Tail(s))

\* new Set(files), in insertion order
NewSet(files) == SetAddAll(<<>>, files)

\* record[key] = value
Put(record, key, value) ==
    [k \in DOMAIN record \cup {key} |-> IF k = key THEN value ELSE record[k]]

(***************************************************************************)
(* syncReplaceCommit                                                       *)
(***************************************************************************)
\* mutant of NextGitOp: a blanket "git add ." in place of each tracked path
NextGitOpBlanket(files, n) ==
    IF n < Len(files) THEN [op |-> "add", path |-> "."]
    ELSE IF n = Len(files) THEN [op |-> "commit", path |-> ""]
    ELSE [op |-> "push", path |-> ""]

\* the git operation a repository's task issues after n operations succeeded:
\* git.add(file) for each tracked file in order, then commit(message).push()
NextGitOp(files, n) ==
    IF n < Len(files) THEN [op |-> "add", path |-> files[n + 1]]
    ELSE IF n = Len(files) THEN [op |-> "commit", path |-> ""]
    ELSE [op |-> "push", path |-> ""]

\* mutant of RetainFailed: the pushed repositories are not removed
RetainAllTracked(s, failed) == s

\* the Session State saved after the push phase: the entries of the failed repositories
RetainFailed(s, failed) ==
    [r \in {x \in failed : x \in DOMAIN s} |-> s[r]]

\* load the state; nothing tracked: return
CommitLoad ==
    /\ pc = "idle"
    /\ state' = loadState
    /\ todo' = <<>>
    /\ updatedModifiedFiles' = EmptyState
    /\ FreshLocals
    /\ IF DOMAIN loadState = {}
          THEN pc' = "idle" /\ lastOp' = "commit:untracked"
          ELSE pc' = "commit:confirm" /\ lastOp' = "commit:running"
    /\ UNCHANGED modifiedFiles
    /\ UNCHANGED otherThanSession

\* first confirmation; accepted: commit message, getAllRepos
CommitConfirm(confirmResult) ==
    /\ pc = "commit:confirm"
    /\ IF ~confirmResult
          THEN /\ pc' = "idle"
               /\ lastOp' = "commit:aborted"
               /\ UNCHANGED <<repos, todo, events>>
          ELSE /\ \E listed \in SUBSET Repos : repos' = listed
               /\ todo' = repoNames(state)
               /\ events' = Append(events, [e |-> "confirm", repo |-> 0])
               /\ pc' = "commit:diff"
               /\ UNCHANGED lastOp
    /\ UNCHANGED <<modifiedFiles, state, reposWithChanges, updatedModifiedFiles,
                   gitLog, successfulRepos, failedRepos, checkedOut>>
    /\ UNCHANGED otherThanSession

\* mutant of CommitDiff: a repository is not looked up in the listing
CommitDiffUnlisted(diffEmpty) ==
    /\ pc = "commit:diff"
    /\ todo # <<>>
    /\ LET repoName == Head(todo) IN
          IF diffEmpty
             THEN UNCHANGED <<reposWithChanges, events>>
             ELSE /\ reposWithChanges' = Append(reposWithChanges, repoName)
                  /\ events' = Append(events, [e |-> "diff", repo |-> repoName])
    /\ todo' = Tail(todo)
    /\ UNCHANGED <<modifiedFiles, pc, state, repos, updatedModifiedFiles, gitLog,
                   successfulRepos, failedRepos, checkedOut, lastOp>>
    /\ UNCHANGED otherThanSession

\* one iteration of the diff loop: skip a repository that is not listed or whose
\* diff is empty, else show the diff and remember the repository
CommitDiff(diffEmpty) ==
    /\ pc = "commit:diff"
    /\ todo # <<>>
    /\ LET repoName == Head(todo) IN
          IF repoName \notin repos \/ diffEmpty
             THEN UNCHANGED <<reposWithChanges, events>>
             ELSE /\ reposWithChanges' = Append(reposWithChanges, repoName)
                  /\ events' = Append(events, [e |-> "diff", repo |-> repoName])
    /\ todo' = Tail(todo)
    /\ UNCHANGED <<modifiedFiles, pc, state, repos, updatedModifiedFiles, gitLog,
                   successfulRepos, failedRepos, checkedOut, lastOp>>
    /\ UNCHANGED otherThanSession

\* mutant of CommitAfterDiffs: without a repository to commit the state is left alone
CommitAfterDiffsKeeping ==
    /\ pc = "commit:diff"
    /\ todo = <<>>
    /\ IF reposWithChanges = <<>>
          THEN /\ pc' = "idle"
               /\ lastOp' = "commit:nochanges"
               /\ UNCHANGED modifiedFiles
          ELSE /\ pc' = "commit:confirmPush"
               /\ UNCHANGED <<modifiedFiles, lastOp>>
    /\ UNCHANGED <<state, repos, todo, reposWithChanges, updatedModifiedFiles, gitLog,
                   successfulRepos, failedRepos, events, checkedOut>>
    /\ UNCHANGED otherThanSession

\* after the loop: nothing to commit clears the state, else ask again
CommitAfterDiffs ==
    /\ pc = "commit:diff"
    /\ todo = <<>>
    /\ IF reposWithChanges = <<>>
          THEN /\ modifiedFiles' = EmptyState
               /\ pc' = "idle"
               /\ lastOp' = "commit:nochanges"
          ELSE /\ pc' = "commit:confirmPush"
               /\ UNCHANGED <<modifiedFiles, lastOp>>
    /\ UNCHANGED <<state, repos, todo, reposWithChanges, updatedModifiedFiles, gitLog,
                   successfulRepos, failedRepos, events, checkedOut>>
    /\ UNCHANGED otherThanSession

\* mutant of CommitConfirmPush: declining clears the tracked state
CommitConfirmPushClearing(confirmPush) ==
    /\ pc = "commit:confirmPush"
    /\ IF ~confirmPush
          THEN /\ pc' = "idle"
               /\ lastOp' = "commit:abortedPush"
               /\ modifiedFiles' = EmptyState
               /\ UNCHANGED events
          ELSE /\ events' = Append(events, [e |-> "confirmPush", repo |-> 0])
               /\ pc' = "commit:push"
               /\ UNCHANGED <<lastOp, modifiedFiles>>
    /\ UNCHANGED <<state, repos, todo, reposWithChanges,
                   updatedModifiedFiles, gitLog, successfulRepos, failedRepos, checkedOut>>
    /\ UNCHANGED otherThanSession

\* mutant of CommitConfirmPush: the answer is not looked at
CommitConfirmPushUnasked(confirmPush) ==
    /\ pc = "commit:confirmPush"
    /\ events' = IF confirmPush THEN Append(events, [e |-> "confirmPush", repo |-> 0])
                  ELSE events
    /\ pc' = "commit:push"
    /\ UNCHANGED <<modifiedFiles, state, repos, todo, reposWithChanges, lastOp,
                   updatedModifiedFiles, gitLog, successfulRepos, failedRepos, checkedOut>>
    /\ UNCHANGED otherThanSession

\* second confirmation; accepted: every repository's task is started
CommitConfirmPush(confirmPush) ==
    /\ pc = "commit:confirmPush"
    /\ IF ~confirmPush
          THEN /\ pc' = "idle"
               /\ lastOp' = "commit:abortedPush"
               /\ UNCHANGED events
          ELSE /\ events' = Append(events, [e |-> "confirmPush", repo |-> 0])
               /\ pc' = "commit:push"
               /\ UNCHANGED lastOp
    /\ UNCHANGED <<modifiedFiles, state, repos, todo, reposWithChanges,
                   updatedModifiedFiles, gitLog, successfulRepos, failedRepos, checkedOut>>
    /\ UNCHANGED otherThanSession

\* one git operation of one repository's task completes, successfully or by throwing;
\* a throw ends the task in the catch block (a failed commit rejects the chained push)
CommitGitStep(repoName, ok) ==
    /\ pc = "commit:push"
    /\ repoName \in Range(reposWithChanges)
    /\ repoName \notin successfulRepos \cup failedRepos
    /\ LET files == state[repoName]
           gitOp == NextGitOp(files, Len(gitLog[repoName]))
       IN /\ gitLog' = [gitLog EXCEPT ![repoName] =
                            Append(@, [op |-> gitOp.op, path |-> gitOp.path, ok |-> ok])]
          /\ IF ~ok
                THEN failedRepos' = failedRepos \cup {repoName} /\ UNCHANGED successfulRepos
                ELSE IF gitOp.op = "push"
                        THEN successfulRepos' = successfulRepos \cup {repoName}
                             /\ UNCHANGED failedRepos
                        ELSE UNCHANGED <<successfulRepos, failedRepos>>
    /\ UNCHANGED <<modifiedFiles, pc, state, repos, todo, reposWithChanges,
                   updatedModifiedFiles, events, checkedOut, lastOp>>
    /\ UNCHANGED otherThanSession

\* Promise.all resolved: keep the failed repositories and save
CommitSave ==
    /\ pc = "commit:push"
    /\ Range(reposWithChanges) = successfulRepos \cup failedRepos
    /\ updatedModifiedFiles' = RetainFailed(state, failedRepos)
    /\ modifiedFiles' = updatedModifiedFiles'
    /\ pc' = "idle"
    /\ lastOp' = "commit:pushed"
    /\ UNCHANGED <<state, repos, todo, reposWithChanges, gitLog, successfulRepos,
                   failedRepos, events, checkedOut>>
    /\ UNCHANGED otherThanSession

(***************************************************************************)
(* syncReplaceReview                                                       *)
(***************************************************************************)
\* what happens to one tracked file: its diff is empty ("nodiff"), git.diff throws
\* ("error"), or the diff is shown and the user chooses "keep" or "undo"
ReviewAnswers == {"keep", "undo", "nodiff", "error"}

\* mutant of keptFiles: every file of the repository is kept
keptFilesAll(files, answers) == files

\* mutant of keptFiles: a file stays unless the user undid it
RECURSIVE keptFilesUnlessUndone(_, _)
keptFilesUnlessUndone(files, answers) ==
    IF files = <<>> THEN <<>>
    ELSE (IF Head(answers) # "undo" THEN <<Head(files)>> ELSE <<>>)
         \o keptFilesUnlessUndone(Tail(files), Tail(answers))

\* keptFiles: the files of the repository the user chose to keep, in order
RECURSIVE keptFiles(_, _)
keptFiles(files, answers) ==
    IF files = <<>> THEN <<>>
    ELSE (IF Head(answers) = "keep" THEN <<Head(files)>> ELSE <<>>)
         \o keptFiles(Tail(files), Tail(answers))

\* the answers the user gave to the select prompt for the files of a repository
RECURSIVE choices(_, _, _)
choices(repoName, files, answers) ==
    IF files = <<>> THEN <<>>
    ELSE (IF Head(answers) \in {"keep", "undo"}
             THEN <<[e |-> Head(answers), repo |-> repoName, file |-> Head(files)]>>
             ELSE <<>>)
         \o choices(repoName, Tail(files), Tail(answers))

\* what the loop over the files of a repository logs and asks, file by file: the
\* notice that the diff is empty ("nodiff") or could not be obtained ("error"), or
\* the answer to the select prompt
RECURSIVE reviewLog(_, _, _)
reviewLog(repoName, files, answers) ==
    IF files = <<>> THEN <<>>
    ELSE (IF Head(answers) \in {"nodiff", "error"}
             THEN <<[e |-> Head(answers), repo |-> repoName, file |-> Head(files)]>>
             ELSE choices(repoName, <<Head(files)>>, <<Head(answers)>>))
         \o reviewLog(repoName, Tail(files), Tail(answers))

\* mutant of ReviewUpdate: the repository is recorded whatever was kept
ReviewUpdateUnpruned(updated, repoName, kept) == Put(updated, repoName, kept)

\* a repository enters the reviewed state only with at least one kept file
ReviewUpdate(updated, repoName, kept) ==
    IF Len(kept) > 0 THEN Put(updated, repoName, kept) ELSE updated

ReviewLoad ==
    /\ pc = "idle"
    /\ state' = loadState
    /\ updatedModifiedFiles' = EmptyState
    /\ FreshLocals
    /\ IF DOMAIN loadState = {}
          THEN pc' = "idle" /\ lastOp' = "review:untracked" /\ todo' = <<>>
          ELSE pc' = "review" /\ lastOp' = "review:running" /\ todo' = repoNames(loadState)
    /\ UNCHANGED modifiedFiles
    /\ UNCHANGED otherThanSession

\* one iteration of the loop over the repositories: every file of the repository
ReviewRepo(answers) ==
    /\ pc = "review"
    /\ todo # <<>>
    /\ LET repoName == Head(todo)
           files == state[repoName]
       IN /\ DOMAIN answers = DOMAIN files
          /\ updatedModifiedFiles' =
                ReviewUpdate(updatedModifiedFiles, repoName, keptFiles(files, answers))
          /\ checkedOut' = checkedOut \cup
                {<<repoName, files[i]>> : i \in {j \in DOMAIN files : answers[j] = "undo"}}
          /\ events' = events \o reviewLog(repoName, files, answers)
    /\ todo' = Tail(todo)
    /\ UNCHANGED <<modifiedFiles, pc, state, repos, reposWithChanges, gitLog,
                   successfulRepos, failedRepos, lastOp>>
    /\ UNCHANGED otherThanSession

ReviewSave ==
    /\ pc = "review"
    /\ todo = <<>>
    /\ modifiedFiles' = updatedModifiedFiles
    /\ pc' = "idle"
    /\ lastOp' = "review:saved"
    /\ UNCHANGED <<state, repos, todo, reposWithChanges, updatedModifiedFiles, gitLog,
                   successfulRepos, failedRepos, events, checkedOut>>
    /\ UNCHANGED otherThanSession

(***************************************************************************)
(* syncReplaceRediff                                                       *)
(***************************************************************************)
\* mutant of newFiles: every changed file is offered
newFilesAll(allChangedFiles, trackedFiles) == allChangedFiles

\* newFiles: the changed files that are not tracked, in diff-summary order
newFiles(allChangedFiles, trackedFiles) ==
    FilterIn(allChangedFiles, Files \ Range(trackedFiles))

\* the confirm prompts of one repository and their answers, in order
offers(repoName, files, shouldAdd) ==
    [i \in DOMAIN files |->
        [e |-> "offer", repo |-> repoName, file |-> files[i],
         shouldAdd |-> files[i] \in shouldAdd]]

RediffLoad ==
    /\ pc = "idle"
    /\ state' = loadState
    /\ updatedModifiedFiles' = loadState
    /\ FreshLocals
    /\ IF DOMAIN loadState = {}
          THEN pc' = "idle" /\ lastOp' = "rediff:untracked" /\ todo' = <<>>
          ELSE pc' = "rediff" /\ lastOp' = "rediff:running" /\ todo' = repoNames(loadState)
    /\ UNCHANGED modifiedFiles
    /\ UNCHANGED otherThanSession

\* one iteration of the loop over the repositories: the diff summary lists
\* allChangedFiles, and the user accepts the new files in shouldAdd.  The lists of
\* updatedModifiedFiles are the arrays of state.modifiedFiles (a shallow copy), so a
\* push shows in both
RediffRepo(allChangedFiles, shouldAdd) ==
    /\ pc = "rediff"
    /\ todo # <<>>
    /\ LET repoName == Head(todo)
           offered == newFiles(allChangedFiles, state[repoName])
           added == FilterIn(offered, shouldAdd)
       IN /\ updatedModifiedFiles' =
                [updatedModifiedFiles EXCEPT ![repoName] = @ \o added]
          /\ state' = [state EXCEPT ![repoName] = @ \o added]
          /\ events' = Append(events, [e |-> "diffSummary", repo |-> repoName,
                                       files |-> allChangedFiles])
                        \o offers(repoName, offered, shouldAdd)
    /\ todo' = Tail(todo)
    /\ UNCHANGED <<modifiedFiles, pc, repos, reposWithChanges, gitLog,
                   successfulRepos, failedRepos, checkedOut, lastOp>>
    /\ UNCHANGED otherThanSession

RediffSave ==
    /\ pc = "rediff"
    /\ todo = <<>>
    /\ modifiedFiles' = updatedModifiedFiles
    /\ pc' = "idle"
    /\ lastOp' = "rediff:saved"
    /\ UNCHANGED <<state, repos, todo, reposWithChanges, updatedModifiedFiles, gitLog,
                   successfulRepos, failedRepos, events, checkedOut>>
    /\ UNCHANGED otherThanSession

(***************************************************************************)
(* syncReplace, as the Session State sees it: which repositories had       *)
(* matches and were selected, and which files had an approved match.       *)
(***************************************************************************)
\* mutant of TrackApproved: the approved files replace the files tracked before
TrackApprovedOnly(tracked, repoName, approvedFiles) ==
    Put(tracked, repoName, SetAddAll(<<>>, approvedFiles))

\* modifiedFiles[repo.name] after a repository's approved changes were applied
TrackApproved(tracked, repoName, approvedFiles) ==
    Put(tracked, repoName,
        SetAddAll(IF repoName \in DOMAIN tracked THEN tracked[repoName] ELSE <<>>,
                  approvedFiles))

\* the state syncReplace saves: the repositories with at least one tracked file
PruneEmpty(tracked) ==
    [k \in {r \in DOMAIN tracked : Len(tracked[r]) > 0} |-> tracked[k]]

\* the previous state is loaded and the repositories are searched; selected are the
\* repositories with matches the user selected (none when nothing matched)
NewSearch(searchOnlyTracked, selected) ==
    /\ pc = "idle"
    /\ searchOnlyTracked => DOMAIN loadState # {} /\ selected \subseteq DOMAIN loadState
    /\ state' = loadState
    /\ FreshLocals
    /\ IF selected = {}
          THEN /\ pc' = "idle"
               /\ lastOp' = "new:nomatch"
               /\ todo' = <<>>
               /\ updatedModifiedFiles' = EmptyState
          ELSE /\ pc' = "new"
               /\ lastOp' = "new:running"
               /\ todo' = SortedSeq(selected)
               /\ updatedModifiedFiles' = [r \in DOMAIN loadState |-> NewSet(loadState[r])]
    /\ UNCHANGED modifiedFiles
    /\ UNCHANGED otherThanSession

\* one iteration of the loop over the selected repositories: its matches were
\* reviewed, approvedFiles are the keys of approvedMatchesByFile
NewRepo(approvedFiles) ==
    /\ pc = "new"
    /\ todo # <<>>
    /\ updatedModifiedFiles' =
          IF Len(approvedFiles) > 0
             THEN TrackApproved(updatedModifiedFiles, Head(todo), approvedFiles)
             ELSE updatedModifiedFiles
    /\ todo' = Tail(todo)
    /\ UNCHANGED <<modifiedFiles, pc, state, repos, reposWithChanges, gitLog,
                   successfulRepos, failedRepos, events, checkedOut, lastOp>>
    /\ UNCHANGED otherThanSession

\* after the loop: save when a repository has tracked changes
NewSave ==
    /\ pc = "new"
    /\ todo = <<>>
    /\ IF DOMAIN PruneEmpty(updatedModifiedFiles) # {}
          THEN modifiedFiles' = PruneEmpty(updatedModifiedFiles) /\ lastOp' = "new:saved"
          ELSE UNCHANGED modifiedFiles /\ lastOp' = "new:nothing"
    /\ pc' = "idle"
    /\ UNCHANGED <<state, repos, todo, reposWithChanges, updatedModifiedFiles, gitLog,
                   successfulRepos, failedRepos, events, checkedOut>>
    /\ UNCHANGED otherThanSession

(***************************************************************************)
(* syncReplaceReset and, as the Session State sees it, syncReplaceRun      *)
(***************************************************************************)
\* clearState
Reset ==
    /\ pc = "idle"
    /\ modifiedFiles' = EmptyState
    /\ state' = EmptyState
    /\ todo' = <<>>
    /\ updatedModifiedFiles' = EmptyState
    /\ FreshLocals
    /\ lastOp' = "reset"
    /\ UNCHANGED pc
    /\ UNCHANGED otherThanSession

\* the command runs in every tracked repository; the state is only read
RunTracked ==
    /\ pc = "idle"
    /\ state' = loadState
    /\ todo' = <<>>
    /\ updatedModifiedFiles' = EmptyState
    /\ FreshLocals
    /\ lastOp' = IF DOMAIN loadState = {} THEN "run:untracked" ELSE "run:done"
    /\ UNCHANGED <<modifiedFiles, pc>>
    /\ UNCHANGED otherThanSession

vars == <<sessionVars, runVars, findVars, replVars, applyVars, histVars, argVars, dispVars, cmdVars, variantVars>>

Init ==
    SessionInit /\ RunIdle /\ FindIdle /\ ReplaceIdle /\ ApplyIdle /\ HistoryIdle /\ ArgsIdle
    /\ DisplayIdle /\ SyncCmdIdle /\ VariantIdle

Next ==
    \/ CommitLoad
    \/ \E confirmResult \in BOOLEAN : CommitConfirm(confirmResult)
    \/ \E diffEmpty \in BOOLEAN : CommitDiff(diffEmpty)
    \/ CommitAfterDiffs
    \/ \E confirmPush \in BOOLEAN : CommitConfirmPush(confirmPush)
    \/ \E repoName \in Repos, ok \in BOOLEAN : CommitGitStep(repoName, ok)
    \/ CommitSave
    \/ ReviewLoad
    \/ \E answers \in UNION {[1..n -> ReviewAnswers] : n \in 1..Cardinality(Files)} : ReviewRepo(answers)
    \/ ReviewSave
    \/ RediffLoad
    \/ \E allChangedFiles \in NoDupSeqs(Files), shouldAdd \in SUBSET Files :
          RediffRepo(allChangedFiles, shouldAdd)
    \/ RediffSave
    \/ \E searchOnlyTracked \in BOOLEAN, selected \in SUBSET Repos :
          NewSearch(searchOnlyTracked, selected)
    \/ \E approvedFiles \in NoDupSeqs(Files) : NewRepo(approvedFiles)
    \/ NewSave
    \/ Reset
    \/ RunTracked

Spec == Init /\ [][Next]_vars

(***************************************************************************)
(* Strings                                                                 *)
(***************************************************************************)
\* pattern occurs in line at the 1-based position k
OccursAt(line, pattern, k) ==
    /\ k + Len(pattern) - 1 <= Len(line)
    /\ \A i \in 1..Len(pattern) : line[k + i - 1] = pattern[i]

\* String.prototype.indexOf: 0-based position of the first occurrence, or -1
indexOf(line, pattern) ==
    IF \E k \in 1..(Len(line) + 1) : OccursAt(line, pattern, k)
       THEN (CHOOSE k \in 1..(Len(line) + 1) :
                /\ OccursAt(line, pattern, k)
                /\ \A h \in 1..(k - 1) : ~OccursAt(line, pattern, h)) - 1
       ELSE -1

\* String.prototype.includes
includes(line, pattern) == indexOf(line, pattern) # -1

\* all strings over the characters of alphabet with a length in lengths
Strings(alphabet, lengths) == UNION {[1..n -> alphabet] : n \in lengths}

(***************************************************************************)
(* findMatches                                                             *)
(***************************************************************************)
\* the inner loop: the 0-based index of the first line from j on that includes
\* endPattern, or the number of lines when there is none
RECURSIVE ScanForEnd(_, _, _)
ScanForEnd(lines, endPat, j) ==
    IF j >= Len(lines) THEN Len(lines)
    ELSE IF includes(lines[j + 1], endPat) THEN j
    ELSE ScanForEnd(lines, endPat, j + 1)

\* mutant of NextStart: the scan restarts on the end line of a closed span
NextStartOnEndLine(j) == j

\* i = j + 1: the scan resumes on the line after the end line
NextStart(j) == j + 1

\* mutant of ClosesSpan: a span is recorded whether or not an end line was found
ClosesSpanAlways(lines, i, startLine, endLine, endPat) == TRUE

\* if (endLine > startLine || lines[i].includes(endPattern))
ClosesSpan(lines, i, startLine, endLine, endPat) ==
    endLine > startLine \/ includes(lines[i + 1], endPat)

\* the outer loop from the 0-based line index i on; visited collects the indexes
\* the loop examined as a possible start
RECURSIVE FindFrom(_, _, _, _, _, _)
FindFrom(lines, startPat, endPat, i, matches, visited) ==
    IF i >= Len(lines) THEN [done |-> TRUE, matches |-> matches, visited |-> visited]
    ELSE
    LET line == lines[i + 1]
        seen == Append(visited, i)
    IN  IF ~includes(line, startPat)
           THEN FindFrom(lines, startPat, endPat, i + 1, matches, seen)
        ELSE IF endPat = undefined
           THEN FindFrom(lines, startPat, endPat, i + 1,
                         Append(matches, [startLine |-> i + 1, endLine |-> i + 1,
                                          matchedText |-> <<line>>]), seen)
        ELSE IF includes(line, endPat) /\ indexOf(line, endPat) > indexOf(line, startPat)
           THEN FindFrom(lines, startPat, endPat, i + 1,
                         Append(matches, [startLine |-> i + 1, endLine |-> i + 1,
                                          matchedText |-> <<line>>]), seen)
        ELSE
        LET j == ScanForEnd(lines, endPat, i + 1)
            startLine == i + 1
            endLine == IF j < Len(lines) THEN j + 1 ELSE i + 1
            matchedLines == SubSeq(lines, i + 1, Min(j + 1, Len(lines)))
        IN  IF ClosesSpan(lines, i, startLine, endLine, endPat)
               THEN FindFrom(lines, startPat, endPat, NextStart(j),
                             Append(matches, [startLine |-> startLine, endLine |-> endLine,
                                              matchedText |-> matchedLines]), seen)
               ELSE FindFrom(lines, startPat, endPat, i + 1, matches, seen)

\* findMatches(content, startPattern, endPattern)
findMatches(lines, startPat, endPat) ==
    FindFrom(lines, startPat, endPat, 0, <<>>, <<>>).matches

(***************************************************************************)
(* Replacement Applier: getIndentation, applyIndentation, applyReplacements *)
(***************************************************************************)
\* the whitespace characters of the model
Whitespace == {" "}

\* number of leading whitespace characters of a line
RECURSIVE LeadingSpace(_)
LeadingSpace(line) ==
    IF line = <<>> \/ Head(line) \notin Whitespace THEN 0
    ELSE 1 + LeadingSpace(Tail(line))

\* mutant of getIndentation: no indentation is taken from the line
getIndentationNone(line) == <<>>

\* getIndentation: the leading whitespace of a line
getIndentation(line) == SubSeq(line, 1, LeadingSpace(line))

\* line.trim().length > 0
NonBlank(line) == \E i \in DOMAIN line : line[i] \notin Whitespace

\* String.prototype.trim
trim(line) ==
    IF ~NonBlank(line) THEN <<>>
    ELSE LET first == CHOOSE i \in DOMAIN line :
                         line[i] \notin Whitespace /\ \A h \in 1..(i - 1) : line[h] \in Whitespace
             last == CHOOSE i \in DOMAIN line :
                         line[i] \notin Whitespace /\ \A h \in (i + 1)..Len(line) : line[h] \in Whitespace
         IN SubSeq(line, first, last)

\* String.prototype.slice(n)
slice(line, n) == SubSeq(line, n + 1, Len(line))

\* String.prototype.replaceAll(pattern, by) for a non-empty pattern
RECURSIVE replaceAll(_, _, _)
replaceAll(line, pattern, by) ==
    IF line = <<>> THEN <<>>
    ELSE IF OccursAt(line, pattern, 1)
         THEN by \o replaceAll(slice(line, Len(pattern)), pattern, by)
         ELSE <<Head(line)>> \o replaceAll(Tail(line), pattern, by)

\* the least leading whitespace of the non-blank lines of text, 0 when all are blank
MinIndent(text) ==
    LET nonEmpty == {i \in DOMAIN text : NonBlank(text[i])}
    IN IF nonEmpty = {} THEN 0
       ELSE LeadingSpace(text[CHOOSE i \in nonEmpty :
                                 \A h \in nonEmpty : LeadingSpace(text[i]) <= LeadingSpace(text[h])])

\* applyIndentation: the lines of text dedented by the common indentation and
\* prefixed with indent
applyIndentation(text, indent) ==
    [i \in DOMAIN text |-> indent \o slice(text[i], MinIndent(text))]

\* [...matches].sort((a, b) => a.startLine - b.startLine): a stable sort
RECURSIVE InsertByStart(_, _)
InsertByStart(sorted, match) ==
    IF sorted = <<>> THEN <<match>>
    ELSE IF match.startLine < sorted[Len(sorted)].startLine
         THEN Append(InsertByStart(SubSeq(sorted, 1, Len(sorted) - 1), match),
                     sorted[Len(sorted)])
         ELSE Append(sorted, match)

RECURSIVE sortedMatches(_)
sortedMatches(matches) ==
    IF matches = <<>> THEN <<>>
    ELSE InsertByStart(sortedMatches(SubSeq(matches, 1, Len(matches) - 1)),
                       matches[Len(matches)])

\* replacement: string | undefined, a text being the sequence of its lines
undefinedText == <<undefined>>

\* lines.join('\n'): the characters of a text of at least one line
RECURSIVE join(_)
join(text) ==
    IF Len(text) = 1 THEN text[1]
    ELSE text[1] \o <<"\n">> \o join(Tail(text))

\* string.split('\n'): the lines of a string
RECURSIVE split(_)
split(string) ==
    IF \A k \in DOMAIN string : string[k] # "\n" THEN <<string>>
    ELSE LET k == CHOOSE h \in DOMAIN string :
                      string[h] = "\n" /\ \A g \in 1..(h - 1) : string[g] # "\n"
         IN <<SubSeq(string, 1, k - 1)>> \o split(SubSeq(string, k + 1, Len(string)))

\* match.originalStartLine ?? match.startLine
originalStartLine(match) ==
    IF "originalStartLine" \in DOMAIN match THEN match.originalStartLine ELSE match.startLine

\* match.originalEndLine ?? match.endLine
originalEndLine(match) ==
    IF "originalEndLine" \in DOMAIN match THEN match.originalEndLine ELSE match.endLine

\* mutant of SpanReplacement: the lines of the span are kept
SpanKept(lines, match, replacement, excludeStart, excludeEnd) ==
    SubSeq(lines, match.startLine, match.endLine)

\* the lines one span is replaced with (inline mode off)
SpanReplacement(lines, match, replacement, excludeStart, excludeEnd) ==
    LET origStartLine == originalStartLine(match)
        origEndLine == originalEndLine(match)
        effectiveStartLine == IF excludeStart THEN origStartLine + 1 ELSE origStartLine
        effectiveEndLine == IF excludeEnd THEN origEndLine - 1 ELSE origEndLine
        indentSourceLine == IF excludeStart THEN origStartLine ELSE origStartLine - 1
    IN  (IF excludeStart THEN <<lines[origStartLine]>> ELSE <<>>)
        \o (IF replacement # undefinedText /\ effectiveStartLine <= effectiveEndLine
               THEN applyIndentation(replacement,
                        getIndentation(lines[Max(0, indentSourceLine) + 1]))
               ELSE <<>>)
        \o (IF excludeEnd /\ origEndLine > origStartLine THEN <<lines[origEndLine]>> ELSE <<>>)

\* the while loop of applyReplacements from the 0-based line index i on: result are
\* the lines pushed, applied the number of spans handled (matchIndex), copied the
\* numbers of the lines pushed unchanged by the else branch
RECURSIVE ApplyFrom(_, _, _, _, _, _, _, _, _, _, _)
ApplyFrom(lines, sorted, i, matchIndex, result, copied, replacement, excludeStart, excludeEnd, inline, startPat) ==
    IF i >= Len(lines) THEN [result |-> result, applied |-> matchIndex, copied |-> copied]
    ELSE IF matchIndex < Len(sorted) /\ i + 1 = sorted[matchIndex + 1].startLine
    THEN LET match == sorted[matchIndex + 1] IN
         IF inline /\ originalStartLine(match) = originalEndLine(match)
            THEN ApplyFrom(lines, sorted, match.endLine, matchIndex + 1,
                     result \o split(replaceAll(lines[originalStartLine(match)], startPat,
                                                IF replacement = undefinedText THEN <<>>
                                                ELSE join(replacement))),
                     copied, replacement, excludeStart, excludeEnd, inline, startPat)
            ELSE ApplyFrom(lines, sorted, match.endLine, matchIndex + 1,
                     result \o SpanReplacement(lines, match, replacement,
                                               excludeStart, excludeEnd),
                     copied, replacement, excludeStart, excludeEnd, inline, startPat)
    ELSE ApplyFrom(lines, sorted, i + 1, matchIndex, Append(result, lines[i + 1]),
                   copied \cup {i + 1}, replacement, excludeStart, excludeEnd, inline,
                   startPat)

\* result.join('\n') read back as lines: no line at all is one empty line
Joined(result) == IF result = <<>> THEN <<<<>>>> ELSE result

\* applyReplacements
applyReplacements(lines, matches, replacement, excludeStart, excludeEnd, inline, startPat) ==
    ApplyFrom(lines, sortedMatches(matches), 0, 0, <<>>, {},
              replacement, excludeStart, excludeEnd, inline, startPat)

(***************************************************************************)
(* syncReplaceRun: the worker pool.  JavaScript runs each callback to its  *)
(* next await without interleaving, so a worker takes a repository and     *)
(* marks it running in one step.                                           *)
(***************************************************************************)
\* largest number of tracked repositories the runner is started with
MaxTracked == 5

\* const concurrency = 4
concurrency == 4

\* mutant of NumWorkers: one worker per repository
NumWorkersUnbounded(n) == n

\* Math.min(concurrency, queue.length)
NumWorkers(n) == Min(concurrency, n)

\* the variables of the session commands the runner leaves alone
sessionButState == <<modifiedFiles, pc, repos, todo, reposWithChanges,
                     updatedModifiedFiles, gitLog, successfulRepos, failedRepos,
                     events, checkedOut, lastOp>>

\* up to max repositories are tracked, each with one file
RunInitUpTo(max) ==
    /\ \E n \in 0..max : modifiedFiles = [r \in 1..n |-> <<"a.ts">>]
    /\ pc = "idle"
    /\ state = EmptyState
    /\ repos = {}
    /\ todo = <<>>
    /\ reposWithChanges = <<>>
    /\ updatedModifiedFiles = EmptyState
    /\ gitLog = NoLog
    /\ successfulRepos = {}
    /\ failedRepos = {}
    /\ events = <<>>
    /\ checkedOut = {}
    /\ lastOp = "none"
    /\ RunIdle
    /\ FindIdle
    /\ ReplaceIdle
    /\ ApplyIdle
    /\ HistoryIdle
    /\ ArgsIdle
    /\ DisplayIdle
    /\ SyncCmdIdle
    /\ VariantIdle

\* the runner is started with up to MaxTracked tracked repositories
RunInit == RunInitUpTo(MaxTracked)

\* the state is loaded, the command is read, every repository is pending, and the
\* workers are created: each runs to its first await, the command of the repository
\* it shifted from the queue
RunStart(commandGiven) ==
    /\ runPc = "off"
    /\ state' = loadState
    /\ LET names == repoNames(loadState)
           N == Len(names)
           k == NumWorkers(N)
       IN IF N = 0 \/ ~commandGiven
             THEN /\ runPc' = "returned"
                  /\ UNCHANGED <<statuses, queue, workers, doneCount, failedOutputs,
                                 started, exitCodes>>
             ELSE /\ runPc' = "workers"
                  /\ statuses' = [r \in Range(names) |->
                                     IF \E i \in 1..k : names[i] = r
                                        THEN "running" ELSE "pending"]
                  /\ queue' = SubSeq(names, k + 1, N)
                  /\ workers' = [w \in 1..k |-> [at |-> "await", repo |-> names[w]]]
                  /\ doneCount' = 0
                  /\ failedOutputs' = <<>>
                  /\ started' = SubSeq(names, 1, k)
                  /\ exitCodes' = <<>>
    /\ UNCHANGED summary
    /\ UNCHANGED sessionButState
    /\ UNCHANGED <<findVars, replVars, applyVars, histVars, argVars, dispVars, cmdVars, variantVars>>

\* whitespace of String.prototype.trim in the model: the blank and the line break
TrimmedAway == Whitespace \cup {"\n"}

\* String.prototype.trim of an output of several lines
trimOutput(string) ==
    IF \A i \in DOMAIN string : string[i] \in TrimmedAway THEN <<>>
    ELSE LET first == CHOOSE i \in DOMAIN string :
                         /\ string[i] \notin TrimmedAway
                         /\ \A h \in 1..(i - 1) : string[h] \in TrimmedAway
             last == CHOOSE i \in DOMAIN string :
                         /\ string[i] \notin TrimmedAway
                         /\ \A h \in (i + 1)..Len(string) : string[h] \in TrimmedAway
         IN SubSeq(string, first, last)

\* mutant of statusOf: a command that exited is shown as done
statusOfAlwaysDone(exitCode) == "done"

\* if (result.exitCode === 0) 'done' else 'failed'
statusOf(exitCode) == IF exitCode = 0 THEN "done" ELSE "failed"

\* the command of the repository a worker awaits exits with its code and what it
\* wrote to stdout and stderr: rest of runOne
RunOneExit(w, exitCode, stdout, stderr) ==
    /\ runPc = "workers"
    /\ w \in DOMAIN workers
    /\ workers[w].at = "await"
    /\ LET repoName == workers[w].repo IN
          /\ doneCount' = doneCount + 1
          /\ exitCodes' = Put(exitCodes, repoName, exitCode)
          /\ statuses' = [statuses EXCEPT ![repoName] = statusOf(exitCode)]
          /\ IF exitCode = 0
                THEN UNCHANGED failedOutputs
                ELSE failedOutputs' =
                        Append(failedOutputs, [repo |-> repoName,
                                               stdout |-> trimOutput(stdout),
                                               stderr |-> trimOutput(stderr)])
    /\ workers' = [workers EXCEPT ![w].at = "resumed"]
    /\ UNCHANGED <<runPc, queue, state, started, summary>>
    /\ UNCHANGED sessionButState
    /\ UNCHANGED <<findVars, replVars, applyVars, histVars, argVars, dispVars, cmdVars, variantVars>>

\* mutant of WorkerContinues: a worker leaves its loop after its first repository
WorkerStopsAfterFirst(q) == FALSE

\* while (queue.length > 0)
WorkerContinues(q) == Len(q) > 0

\* a worker whose runOne returned goes round its loop: it shifts the next repository
\* and starts runOne, or leaves the loop when the queue is empty
WorkerLoop(w) ==
    /\ runPc = "workers"
    /\ w \in DOMAIN workers
    /\ workers[w].at = "resumed"
    /\ IF WorkerContinues(queue)
          THEN /\ queue' = Tail(queue)
               /\ statuses' = [statuses EXCEPT ![Head(queue)] = "running"]
               /\ workers' = [workers EXCEPT ![w] = [at |-> "await", repo |-> Head(queue)]]
               /\ started' = Append(started, Head(queue))
          ELSE /\ workers' = [workers EXCEPT ![w].at = "exited"]
               /\ UNCHANGED <<queue, statuses, started>>
    /\ UNCHANGED <<runPc, doneCount, failedOutputs, state, exitCodes, summary>>
    /\ UNCHANGED sessionButState
    /\ UNCHANGED <<findVars, replVars, applyVars, histVars, argVars, dispVars, cmdVars, variantVars>>

\* the elements of s that are not blank lines, in the order of s
RECURSIVE filterNonBlank(_)
filterNonBlank(s) ==
    IF s = <<>> THEN <<>>
    ELSE (IF NonBlank(Head(s)) THEN <<Head(s)>> ELSE <<>>) \o filterNonBlank(Tail(s))

\* Array.prototype.slice(-n): the last n elements
sliceLast(s, n) == SubSeq(s, Max(1, Len(s) - n + 1), Len(s))

\* what is logged for a repository without output
noOutput == <<<<"(no output)">>>>

\* const output = stderr || stdout
chosenOutput(stdout, stderr) == IF stderr # <<>> THEN stderr ELSE stdout

\* the lines logged for one entry of failedOutputs
lastLines(entry) ==
    LET output == chosenOutput(entry.stdout, entry.stderr)
    IN IF output = <<>> THEN noOutput
       ELSE split(join(sliceLast(filterNonBlank(split(output)), 5)))

\* mutant of RunSummary: the repositories whose command succeeded are untracked
RunSummaryUntracking ==
    /\ runPc = "workers"
    /\ \A w \in DOMAIN workers : workers[w].at = "exited"
    /\ runPc' = "finished"
    /\ summary' = [i \in DOMAIN failedOutputs |->
                      [repo |-> failedOutputs[i].repo, lines |-> lastLines(failedOutputs[i])]]
    /\ modifiedFiles' = [r \in {x \in DOMAIN modifiedFiles : statuses[x] = "failed"} |->
                            modifiedFiles[r]]
    /\ UNCHANGED <<statuses, queue, workers, doneCount, failedOutputs, state, started,
                   exitCodes>>
    /\ UNCHANGED <<pc, repos, todo, reposWithChanges, updatedModifiedFiles, gitLog,
                   successfulRepos, failedRepos, events, checkedOut, lastOp>>
    /\ UNCHANGED <<findVars, replVars, applyVars, histVars, argVars, dispVars, cmdVars, variantVars>>

\* Promise.all(workers) resolved: the failure summary is printed
RunSummary ==
    /\ runPc = "workers"
    /\ \A w \in DOMAIN workers : workers[w].at = "exited"
    /\ runPc' = "finished"
    /\ summary' = [i \in DOMAIN failedOutputs |->
                      [repo |-> failedOutputs[i].repo, lines |-> lastLines(failedOutputs[i])]]
    /\ UNCHANGED <<statuses, queue, workers, doneCount, failedOutputs, state, started,
                   exitCodes>>
    /\ UNCHANGED sessionButState
    /\ UNCHANGED <<findVars, replVars, applyVars, histVars, argVars, dispVars, cmdVars, variantVars>>

RunNext ==
    \/ \E commandGiven \in BOOLEAN : RunStart(commandGiven)
    \/ \E w \in 1..concurrency, exitCode \in {0, 1} : RunOneExit(w, exitCode, <<>>, <<>>)
    \/ \E w \in 1..concurrency : WorkerLoop(w)
    \/ RunSummary

SpecRun == RunInit /\ [][RunNext]_vars

\* the runner when every command terminates and the event loop resumes every
\* continuation that is ready
SpecRunFair ==
    /\ RunInit
    /\ [][RunNext]_vars
    /\ \A w \in 1..concurrency :
          /\ WF_vars(\E exitCode \in {0, 1} : RunOneExit(w, exitCode, <<>>, <<>>))
          /\ WF_vars(WorkerLoop(w))
    /\ WF_vars(RunSummary)

\* largest number of tracked repositories when the outputs of the commands vary
MaxOutputRepos == 2

\* what a command writes to stdout: nothing, a line, blanks only, or six non-blank
\* lines with blank lines between them and a line break at the end
StdoutPool ==
    {<<>>, <<"o">>, <<" ", "\n">>,
     <<"1", "\n", "\n", "2", "\n", " ", "\n", "3", "\n", "4", "\n", "5", "\n", "6", "\n">>}

\* what a command writes to stderr: nothing, a line, a line break only, or two lines
StderrPool == {<<>>, <<"e">>, <<"\n">>, <<"e", "\n", "f">>}

RunOutputInit == RunInitUpTo(MaxOutputRepos)

RunOutputNext ==
    \/ \E commandGiven \in BOOLEAN : RunStart(commandGiven)
    \/ \E w \in 1..concurrency, exitCode \in {0, 1, 2}, stdout \in StdoutPool,
          stderr \in StderrPool : RunOneExit(w, exitCode, stdout, stderr)
    \/ \E w \in 1..concurrency : WorkerLoop(w)
    \/ RunSummary

\* the runner with commands that write to stdout and stderr
SpecRunOutput == RunOutputInit /\ [][RunOutputNext]_vars

(***************************************************************************)
(* Interactive Review Engine: autoExpandMatch, computeExtraLines and the   *)
(* keypress handler of interactiveMatchReview.                             *)
(***************************************************************************)
\* extraLines.filter((e) => e.position === position)
RECURSIVE filterPosition(_, _)
filterPosition(extras, position) ==
    IF extras = <<>> THEN <<>>
    ELSE IF Head(extras).position = position
         THEN <<Head(extras)>> \o filterPosition(Tail(extras), position)
         ELSE filterPosition(Tail(extras), position)

\* .sort((a, b) => a.offset - b.offset): a stable sort
RECURSIVE InsertByOffset(_, _)
InsertByOffset(sorted, pattern) ==
    IF sorted = <<>> THEN <<pattern>>
    ELSE IF pattern.offset < sorted[Len(sorted)].offset
         THEN Append(InsertByOffset(SubSeq(sorted, 1, Len(sorted) - 1), pattern),
                     sorted[Len(sorted)])
         ELSE Append(sorted, pattern)

RECURSIVE sortByOffset(_)
sortByOffset(patterns) ==
    IF patterns = <<>> THEN <<>>
    ELSE InsertByOffset(sortByOffset(SubSeq(patterns, 1, Len(patterns) - 1)),
                        patterns[Len(patterns)])

\* the loop over abovePatterns
RECURSIVE ExpandAbove(_, _, _, _)
ExpandAbove(lines, match, patterns, startLine) ==
    IF patterns = <<>> THEN startLine
    ELSE LET lineIdx == match.startLine - 1 - Head(patterns).offset
         IN IF lineIdx >= 0 /\ trim(lines[lineIdx + 1]) = Head(patterns).trimmedContent
               THEN ExpandAbove(lines, match, Tail(patterns), Min(startLine, lineIdx + 1))
               ELSE startLine

\* the loop over belowPatterns
RECURSIVE ExpandBelow(_, _, _, _)
ExpandBelow(lines, match, patterns, endLine) ==
    IF patterns = <<>> THEN endLine
    ELSE LET lineIdx == match.endLine - 1 + Head(patterns).offset
         IN IF lineIdx < Len(lines) /\ trim(lines[lineIdx + 1]) = Head(patterns).trimmedContent
               THEN ExpandBelow(lines, match, Tail(patterns), Max(endLine, lineIdx + 1))
               ELSE endLine

\* mutant of autoExpandMatch: the boundaries of the match are returned
autoExpandNone(lines, match, extras) ==
    [startLine |-> match.startLine, endLine |-> match.endLine, appliedCount |-> 0]

\* autoExpandMatch
autoExpandMatch(lines, match, extras) ==
    LET startLine == ExpandAbove(lines, match,
                                 sortByOffset(filterPosition(extras, "above")),
                                 match.startLine)
        endLine == ExpandBelow(lines, match,
                               sortByOffset(filterPosition(extras, "below")),
                               match.endLine)
    IN [startLine |-> startLine, endLine |-> endLine,
        appliedCount |-> match.startLine - startLine + (endLine - match.endLine)]

\* computeExtraLines
computeExtraLines(originalMatch, expandedStartLine, expandedEndLine, lines) ==
    [k \in 1..(originalMatch.startLine - expandedStartLine) |->
        LET i == expandedStartLine + k - 1
        IN [trimmedContent |-> trim(lines[i]), position |-> "above",
            offset |-> originalMatch.startLine - i]]
    \o
    [k \in 1..(expandedEndLine - originalMatch.endLine) |->
        LET i == originalMatch.endLine + k
        IN [trimmedContent |-> trim(lines[i]), position |-> "below",
            offset |-> i - originalMatch.endLine]]

\* Map.has, Map.get and Map.keys of a Map kept as its entries in insertion order
MapHas(map, key) == \E i \in DOMAIN map : map[i].key = key

MapGet(map, key) == map[CHOOSE i \in DOMAIN map : map[i].key = key].value

MapKeys(map) == [i \in DOMAIN map |-> map[i].key]

\* if (!map.has(key)) map.set(key, []); map.get(key).push(match)
MapPush(map, key, match) ==
    IF MapHas(map, key)
       THEN [i \in DOMAIN map |->
                IF map[i].key = key
                   THEN [key |-> key, value |-> Append(map[i].value, match)]
                   ELSE map[i]]
       ELSE Append(map, [key |-> key, value |-> <<match>>])

\* the session variables syncReplace leaves alone during the loop
sessionButTracked == <<modifiedFiles, pc, state, repos, todo, reposWithChanges,
                       gitLog, successfulRepos, failedRepos, events, checkedOut,
                       lastOp>>

\* the match under review
reviewedChange == changes[changeIdx]

reviewedMatch == reviewedChange.matches[matchIdx]

\* interactiveMatchReview is entered for match mi of change ci: the boundaries
\* are those of autoExpandMatch, the undo stack is empty
EnterReview(chs, ci, mi, extras) ==
    LET autoExpanded == autoExpandMatch(chs[ci].originalContent, chs[ci].matches[mi], extras)
    IN /\ rpc' = "review"
       /\ changeIdx' = ci
       /\ matchIdx' = mi
       /\ currentStartLine' = autoExpanded.startLine
       /\ currentEndLine' = autoExpanded.endLine
       /\ undoStack' = <<>>

\* mutant of LoopsDone: the loops over the changes end with the first change
LoopsDoneAfterFirstChange(chs, ci, mi) == mi = Len(chs[ci].matches)

\* both for loops over the changes of the repository are at their end
LoopsDone(chs, ci, mi) == ci = Len(chs) /\ mi = Len(chs[ci].matches)

\* interactiveMatchReview returned action and newExtraLines: the body of the loop
\* after the await, up to the next await: the review of the next match or, after
\* the last match of the repository, applyApprovedChanges
Resolved(action, newExtraLines) ==
    LET expandedMatch ==
            [startLine |-> currentStartLine, endLine |-> currentEndLine,
             matchedText |-> reviewedMatch.matchedText,
             originalStartLine |-> reviewedMatch.startLine,
             originalEndLine |-> reviewedMatch.endLine]
        approved == IF action = "apply"
                       THEN MapPush(approvedMatchesByFile, reviewedChange.file, expandedMatch)
                       ELSE approvedMatchesByFile
        extras == IF action = "apply" THEN newExtraLines ELSE extraLines
    IN /\ approvedMatchesByFile' = approved
       /\ extraLines' = extras
       /\ decisions' = Append(decisions, [file |-> reviewedChange.file, match |-> matchIdx,
                                          action |-> action])
       /\ IF LoopsDone(changes, changeIdx, matchIdx)
             THEN /\ rpc' = IF Len(approved) > 0 THEN "write" ELSE "loop"
                  /\ changeIdx' = 1
                  /\ matchIdx' = 0
                  /\ currentStartLine' = 0
                  /\ currentEndLine' = 0
                  /\ undoStack' = <<>>
             ELSE IF matchIdx < Len(reviewedChange.matches)
                     THEN EnterReview(changes, changeIdx, matchIdx + 1, extras)
                     ELSE EnterReview(changes, changeIdx + 1, 1, extras)
       /\ UNCHANGED <<params, linesLeft, repo, changes, written>>
       /\ UNCHANGED <<sessionButTracked, updatedModifiedFiles>>
       /\ UNCHANGED <<runVars, findVars, applyVars, histVars, argVars, dispVars, cmdVars, variantVars>>

\* the boundaries change in a review: nothing else does
ReviewContinues ==
    /\ UNCHANGED <<rpc, params, linesLeft, repo, changes, changeIdx, matchIdx, extraLines,
                   approvedMatchesByFile, decisions, written>>
    /\ UNCHANGED <<sessionButTracked, updatedModifiedFiles>>
    /\ UNCHANGED <<runVars, findVars, applyVars, histVars, argVars, dispVars, cmdVars, variantVars>>

\* mutant of canMoveUp: the start boundary moves up from any line
canMoveUpAlways(startLine) == TRUE

\* currentStartLine > 1
canMoveUp(startLine) == startLine > 1

\* currentEndLine < lines.length
canMoveDown(endLine, lines) == endLine < Len(lines)

\* key.name === 'down'
KeyDown ==
    /\ rpc = "review" /\ ~params.force
    /\ canMoveDown(currentEndLine, reviewedChange.originalContent)
    /\ undoStack' = Append(undoStack, [start |-> currentStartLine, end |-> currentEndLine])
    /\ currentEndLine' = currentEndLine + 1
    /\ UNCHANGED currentStartLine
    /\ ReviewContinues

\* key.name === 'up'
KeyUp ==
    /\ rpc = "review" /\ ~params.force
    /\ canMoveUp(currentStartLine)
    /\ undoStack' = Append(undoStack, [start |-> currentStartLine, end |-> currentEndLine])
    /\ currentStartLine' = currentStartLine - 1
    /\ UNCHANGED currentEndLine
    /\ ReviewContinues

\* key.name === 'return'
KeyReturn ==
    /\ rpc = "review" /\ ~params.force
    /\ Resolved("apply", computeExtraLines(reviewedMatch, currentStartLine, currentEndLine,
                                           reviewedChange.originalContent))

\* _str === 's'
KeySkip ==
    /\ rpc = "review" /\ ~params.force
    /\ Resolved("skip", extraLines)

\* mutant of pop: the entry read stays on the stack
popNothing(stack) == stack

\* undoStack.pop(): what is left of the stack
pop(stack) == SubSeq(stack, 1, Len(stack) - 1)

\* _str === 'z': the last expansion is undone, or the automatic expansion when the
\* stack is empty; without either the key does nothing
KeyUndo ==
    /\ rpc = "review" /\ ~params.force
    /\ IF undoStack # <<>>
          THEN /\ currentStartLine' = undoStack[Len(undoStack)].start
               /\ currentEndLine' = undoStack[Len(undoStack)].end
               /\ undoStack' = pop(undoStack)
          ELSE /\ currentStartLine # reviewedMatch.startLine
                  \/ currentEndLine # reviewedMatch.endLine
               /\ currentStartLine' = reviewedMatch.startLine
               /\ currentEndLine' = reviewedMatch.endLine
               /\ UNCHANGED undoStack
    /\ ReviewContinues

\* key.ctrl && key.name === 'c': process.exit(0)
KeyCtrlC ==
    /\ rpc = "review" /\ ~params.force
    /\ rpc' = "exit"
    /\ UNCHANGED <<params, linesLeft, repo, changes, changeIdx, matchIdx, currentStartLine,
                   currentEndLine, undoStack, extraLines, approvedMatchesByFile, decisions,
                   written>>
    /\ UNCHANGED <<sessionButTracked, updatedModifiedFiles>>
    /\ UNCHANGED <<runVars, findVars, applyVars, histVars, argVars, dispVars, cmdVars, variantVars>>

\* mutant of forceResult: a forced review skips the match
forceResultSkip(match, startLine, endLine, lines, extras) ==
    [action |-> "skip", expandedStartLine |-> startLine, expandedEndLine |-> endLine,
     newExtraLines |-> extras]

\* what interactiveMatchReview returns under force
forceResult(match, startLine, endLine, lines, extras) ==
    [action |-> "apply", expandedStartLine |-> startLine, expandedEndLine |-> endLine,
     newExtraLines |-> computeExtraLines(match, startLine, endLine, lines)]

\* if (force): the match is applied with the boundaries of autoExpandMatch
ReviewForce ==
    /\ rpc = "review" /\ params.force
    /\ LET result == forceResult(reviewedMatch, currentStartLine, currentEndLine,
                                 reviewedChange.originalContent, extraLines)
       IN Resolved(result.action, result.newExtraLines)

(***************************************************************************)
(* syncReplace: the loop over selectedReposWithMatches, applyApprovedChanges *)
(* and the save after the loop.  The entries of selectedReposWithMatches   *)
(* are fixed before the loop; each is drawn here when the loop reaches it. *)
(***************************************************************************)
\* lines of content all files of the selected repositories have together
MaxReviewLines == 4

\* the lines a file is made of: one with the start pattern, and one without that is
\* indented or not
ReviewLinePool == {<<"s">>, <<"x">>, <<" ", "x">>}

\* the files with matches of one repository, in the order of the scan
FileLists == {<<"a.ts">>, <<"b.ts">>, <<"a.ts", "b.ts">>}

\* the arguments syncReplace is called with
ReplaceParams ==
    {[startPattern |-> <<"s">>, endPattern |-> undefined, replacement |-> r, force |-> f,
      excludeStart |-> FALSE, excludeEnd |-> FALSE, inline |-> FALSE] :
        r \in {undefinedText, <<<<"r">>>>}, f \in BOOLEAN}

\* the states a previous invocation saved
PreviousStates == {EmptyState, [r \in {1} |-> <<"b.ts">>]}

\* number of lines of a list of contents
RECURSIVE TotalLines(_)
TotalLines(contents) ==
    IF contents = <<>> THEN 0 ELSE Len(Head(contents)) + TotalLines(Tail(contents))

\* findMatchesInRepo: a FileChange for every file with at least one match, of at
\* most n lines together
findMatchesInRepo(n, startPat, endPat) ==
    LET Contents == {c \in Strings(ReviewLinePool, 1..n) :
                        Len(findMatches(c, startPat, endPat)) > 0}
    IN UNION {{[i \in DOMAIN files |->
                   [file |-> files[i], originalContent |-> contents[i],
                    matches |-> findMatches(contents[i], startPat, endPat)]] :
                 contents \in {c \in [DOMAIN files -> Contents] : TotalLines(c) <= n}} :
              files \in FileLists}

\* what the loop starts with: the previous state is loaded, its lists are Sets
ReplaceInit ==
    /\ params \in ReplaceParams
    /\ modifiedFiles \in PreviousStates
    /\ state = modifiedFiles
    /\ updatedModifiedFiles = [r \in DOMAIN modifiedFiles |-> NewSet(modifiedFiles[r])]
    /\ pc = "new"
    /\ repos = {}
    /\ todo = <<>>
    /\ reposWithChanges = <<>>
    /\ gitLog = NoLog
    /\ successfulRepos = {}
    /\ failedRepos = {}
    /\ events = <<>>
    /\ checkedOut = {}
    /\ lastOp = "new:running"
    /\ rpc = "loop"
    /\ linesLeft = MaxReviewLines
    /\ repo = 0
    /\ changes = <<>>
    /\ changeIdx = 0
    /\ matchIdx = 0
    /\ currentStartLine = 0
    /\ currentEndLine = 0
    /\ undoStack = <<>>
    /\ extraLines = <<>>
    /\ approvedMatchesByFile = <<>>
    /\ decisions = <<>>
    /\ written = <<>>
    /\ RunIdle
    /\ FindIdle
    /\ ApplyIdle
    /\ HistoryIdle
    /\ ArgsIdle
    /\ DisplayIdle
    /\ SyncCmdIdle
    /\ VariantIdle

\* the loop takes the next selected repository and enters the review of its first
\* match
LoopRepo(repoName, chs) ==
    /\ rpc = "loop"
    /\ repoName > repo
    /\ repo' = repoName
    /\ changes' = chs
    /\ linesLeft' = linesLeft - TotalLines([i \in DOMAIN chs |-> chs[i].originalContent])
    /\ approvedMatchesByFile' = <<>>
    /\ decisions' = <<>>
    /\ EnterReview(chs, 1, 1, extraLines)
    /\ UNCHANGED <<params, extraLines, written>>
    /\ UNCHANGED <<sessionButTracked, updatedModifiedFiles>>
    /\ UNCHANGED <<runVars, findVars, applyVars, histVars, argVars, dispVars, cmdVars, variantVars>>

\* applyApprovedChanges up to and including its next Bun.write; after the last one
\* the files of approvedMatchesByFile are added to the tracked files of the
\* repository
WriteFile ==
    /\ rpc = "write"
    /\ LET toWrite == {i \in changeIdx..Len(changes) :
                          /\ MapHas(approvedMatchesByFile, changes[i].file)
                          /\ Len(MapGet(approvedMatchesByFile, changes[i].file)) > 0}
       IN /\ toWrite # {}
          /\ LET i == CHOOSE k \in toWrite : \A h \in toWrite : k <= h
                 approvedMatches == MapGet(approvedMatchesByFile, changes[i].file)
                 applied == applyReplacements(changes[i].originalContent, approvedMatches,
                                params.replacement, params.excludeStart, params.excludeEnd,
                                params.inline, params.startPattern)
             IN /\ written' = Append(written,
                                  [repo |-> repo, file |-> changes[i].file,
                                   originalContent |-> changes[i].originalContent,
                                   approvedMatches |-> approvedMatches,
                                   newContent |-> Joined(applied.result),
                                   copied |-> applied.copied])
                /\ IF toWrite = {i}
                      THEN /\ rpc' = "loop"
                           /\ changeIdx' = 0
                           /\ updatedModifiedFiles' =
                                  TrackApproved(updatedModifiedFiles, repo,
                                                MapKeys(approvedMatchesByFile))
                      ELSE /\ changeIdx' = i + 1
                           /\ UNCHANGED <<rpc, updatedModifiedFiles>>
    /\ UNCHANGED <<params, linesLeft, repo, changes, matchIdx, currentStartLine,
                   currentEndLine, undoStack, extraLines, approvedMatchesByFile, decisions>>
    /\ UNCHANGED sessionButTracked
    /\ UNCHANGED <<runVars, findVars, applyVars, histVars, argVars, dispVars, cmdVars, variantVars>>

\* mutant of ReplaceSave: the loop ends without saveState
ReplaceSaveUnsaved ==
    /\ rpc = "loop"
    /\ repo # 0
    /\ rpc' = "done"
    /\ UNCHANGED sessionVars
    /\ UNCHANGED <<params, linesLeft, repo, changes, changeIdx, matchIdx, currentStartLine,
                   currentEndLine, undoStack, extraLines, approvedMatchesByFile, decisions,
                   written>>
    /\ UNCHANGED <<runVars, findVars, applyVars, histVars, argVars, dispVars, cmdVars, variantVars>>

\* after the loop: the state is saved when a repository has tracked files
ReplaceSave ==
    /\ rpc = "loop"
    /\ repo # 0
    /\ rpc' = "done"
    /\ IF DOMAIN PruneEmpty(updatedModifiedFiles) # {}
          THEN modifiedFiles' = PruneEmpty(updatedModifiedFiles)
          ELSE UNCHANGED modifiedFiles
    /\ UNCHANGED <<pc, state, repos, todo, reposWithChanges, updatedModifiedFiles, gitLog,
                   successfulRepos, failedRepos, events, checkedOut, lastOp>>
    /\ UNCHANGED <<params, linesLeft, repo, changes, changeIdx, matchIdx, currentStartLine,
                   currentEndLine, undoStack, extraLines, approvedMatchesByFile, decisions,
                   written>>
    /\ UNCHANGED <<runVars, findVars, applyVars, histVars, argVars, dispVars, cmdVars, variantVars>>

ReplaceNext ==
    \/ \E repoName \in Repos :
          \E chs \in findMatchesInRepo(linesLeft, params.startPattern, params.endPattern) :
             LoopRepo(repoName, chs)
    \/ KeyDown
    \/ KeyUp
    \/ KeyReturn
    \/ KeySkip
    \/ KeyUndo
    \/ KeyCtrlC
    \/ ReviewForce
    \/ WriteFile
    \/ ReplaceSave

SpecReplace == ReplaceInit /\ [][ReplaceNext]_vars

(***************************************************************************)
(* SpecApply: applyReplacements applied to every bounded content and every *)
(* list of spans a review of its matches can approve, then findMatches     *)
(* applied to the new content.                                             *)
(***************************************************************************)
\* lines of a file the applier is called on
MaxApplyLines == 3

\* the lines a file is made of: with the start pattern "s", once, indented or
\* twice, with the end pattern "e", with both, with neither
ApplyLinePool == {<<"s">>, <<"x">>, <<"e">>, <<"s", "e">>, <<" ", " ", " ", " ", "s">>,
                  <<"s", "x", "s">>}

\* replacement: nothing, one line, or three lines of which one is blank
Replacements == {undefinedText, <<<<"r">>>>,
                 <<<<" ", " ", "r">>, <<>>, <<" ", " ", " ", "q">>>>}

\* the modes syncReplaceInteractive asks for: exclusions with an end pattern, inline
\* without
ApplyModes ==
    {[endPattern |-> <<"e">>, excludeStart |-> xs, excludeEnd |-> xe, inline |-> FALSE] :
        xs \in BOOLEAN, xe \in BOOLEAN}
    \cup {[endPattern |-> undefined, excludeStart |-> FALSE, excludeEnd |-> FALSE,
           inline |-> i] : i \in BOOLEAN}

\* the spans the review can return for a match: the boundaries move up to line 1 and
\* down to the last line
expandedMatches(lines, match) ==
    {[startLine |-> s, endLine |-> e, matchedText |-> match.matchedText,
      originalStartLine |-> match.startLine, originalEndLine |-> match.endLine] :
        s \in 1..match.startLine, e \in match.endLine..Len(lines)}

\* the lists approvedMatchesByFile can hold for a file: some of the matches from k
\* on, in their order, each with reviewed boundaries
RECURSIVE approvedLists(_, _, _)
approvedLists(lines, matches, k) ==
    IF k > Len(matches) THEN {<<>>}
    ELSE LET rest == approvedLists(lines, matches, k + 1)
         IN rest \cup {<<m>> \o r : m \in expandedMatches(lines, matches[k]), r \in rest}

ApplyInit ==
    /\ \E lines \in Strings(ApplyLinePool, 1..MaxApplyLines), mode \in ApplyModes,
          replacement \in Replacements :
          \E approvedMatches \in approvedLists(lines,
                                   findMatches(lines, <<"s">>, mode.endPattern), 1) :
             /\ Len(approvedMatches) > 0
             /\ applyArgs = [content |-> lines, matches |-> approvedMatches,
                             replacement |-> replacement, startPattern |-> <<"s">>,
                             endPattern |-> mode.endPattern,
                             excludeStart |-> mode.excludeStart,
                             excludeEnd |-> mode.excludeEnd, inline |-> mode.inline]
    /\ newContent = NotApplied
    /\ refound = NotFound
    /\ HistoryIdle
    /\ ArgsIdle
    /\ DisplayIdle
    /\ SyncCmdIdle
    /\ VariantIdle
    /\ SessionInit
    /\ RunIdle
    /\ FindIdle
    /\ ReplaceIdle

\* applyApprovedChanges: newContent = applyReplacements(...)
Apply ==
    /\ ~newContent.done
    /\ LET applied == applyReplacements(applyArgs.content, applyArgs.matches,
                          applyArgs.replacement, applyArgs.excludeStart,
                          applyArgs.excludeEnd, applyArgs.inline, applyArgs.startPattern)
       IN newContent' = [done |-> TRUE, result |-> Joined(applied.result),
                         copied |-> applied.copied]
    /\ UNCHANGED <<applyArgs, refound>>
    /\ UNCHANGED <<sessionVars, runVars, findVars, replVars, histVars, argVars, dispVars, cmdVars, variantVars>>

\* the written file is searched again with the same patterns
Refind ==
    /\ newContent.done
    /\ ~refound.done
    /\ refound' = FindFrom(newContent.result, applyArgs.startPattern, applyArgs.endPattern,
                           0, <<>>, <<>>)
    /\ UNCHANGED <<applyArgs, newContent>>
    /\ UNCHANGED <<sessionVars, runVars, findVars, replVars, histVars, argVars, dispVars, cmdVars, variantVars>>

ApplyNext == Apply \/ Refind

SpecApply == ApplyInit /\ [][ApplyNext]_vars

(***************************************************************************)
(* SpecFind: findMatches applied to every bounded content and pattern      *)
(***************************************************************************)
\* largest number of lines of a file
MaxLines == 3

\* lines of the files searched
FindLines == Strings({"a", "b"}, 0..2) \cup {<<"a", "b", "a">>, <<"b", "a", "b">>}

\* start patterns searched for
StartPatterns == {<<"a">>, <<"a", "b">>}

\* end patterns searched for
EndPatterns == {undefined, <<"a">>, <<"b">>, <<"b", "a">>}

FindInit ==
    /\ content \in Strings(FindLines, 1..MaxLines)
    /\ startPattern \in StartPatterns
    /\ endPattern \in EndPatterns
    /\ found = NotFound
    /\ SessionInit
    /\ RunIdle
    /\ ReplaceIdle
    /\ ApplyIdle
    /\ HistoryIdle
    /\ ArgsIdle
    /\ DisplayIdle
    /\ SyncCmdIdle
    /\ VariantIdle

\* the file is searched
Find ==
    /\ ~found.done
    /\ found' = FindFrom(content, startPattern, endPattern, 0, <<>>, <<>>)
    /\ UNCHANGED <<content, startPattern, endPattern>>
    /\ UNCHANGED <<sessionVars, runVars, replVars, applyVars, histVars, argVars, dispVars, cmdVars, variantVars>>

FindNext == Find

SpecFind == FindInit /\ [][FindNext]_vars

(***************************************************************************)
(* Input History: addToHistory on one field, starting from an empty list.  *)
(* The values entered are pairs of letters, in a fixed order when they are *)
(* new; an entry of the list can be entered again, and so can a blank.     *)
(***************************************************************************)
\* const MAX_HISTORY = 20
MAX_HISTORY == 20

\* number of distinct non-blank values entered
MaxValues == 25

\* number of times an entry is entered again
MaxReadds == 2

Letters == <<"a", "b", "c", "d", "e", "f">>

\* the k-th distinct value entered
ValueOf(k) == <<Letters[((k - 1) \div Len(Letters)) + 1], Letters[((k - 1) % Len(Letters)) + 1]>>

\* the values without a non-blank character
BlankValues == {<<>>, <<" ">>}

\* mutant of sliceTo: the list is not cut
sliceToEnd(s, n) == s

\* Array.prototype.slice(0, n)
sliceTo(s, n) == SubSeq(s, 1, Min(n, Len(s)))

\* addToHistory(entries, value)
addToHistory(es, v) ==
    IF trim(v) = <<>> \/ (es # <<>> /\ es[1] = v) THEN es
    ELSE sliceTo(<<v>> \o SelectSeq(es, LAMBDA e : e # v), MAX_HISTORY)

HistoryInit ==
    /\ HistoryIdle
    /\ ArgsIdle
    /\ DisplayIdle
    /\ SyncCmdIdle
    /\ VariantIdle
    /\ SessionInit
    /\ RunIdle
    /\ FindIdle
    /\ ReplaceIdle
    /\ ApplyIdle

\* history.field = addToHistory(history.field, v)
Add(v) ==
    /\ lastValue' = v
    /\ historyEntries' = addToHistory(historyEntries, v)
    /\ UNCHANGED <<sessionVars, runVars, findVars, replVars, applyVars, argVars, dispVars, cmdVars, variantVars>>

\* a value not entered before
AddFresh ==
    /\ freshCount < MaxValues
    /\ freshCount' = freshCount + 1
    /\ Add(ValueOf(freshCount + 1))
    /\ UNCHANGED readdCount

\* the value of the first, the second or the last entry again
AddAgain(i) ==
    /\ readdCount < MaxReadds
    /\ i \in DOMAIN historyEntries
    /\ i \in {1, 2, Len(historyEntries)}
    /\ readdCount' = readdCount + 1
    /\ Add(historyEntries[i])
    /\ UNCHANGED freshCount

\* a blank value
AddBlank(v) ==
    /\ v \in BlankValues
    /\ Add(v)
    /\ UNCHANGED <<freshCount, readdCount>>

HistoryNext ==
    \/ AddFresh
    \/ \E i \in 1..MAX_HISTORY : AddAgain(i)
    \/ \E v \in BlankValues : AddBlank(v)

SpecHistory == HistoryInit /\ [][HistoryNext]_vars

(***************************************************************************)
(* syncCmd, syncFileAcrossRepos and queryForRelevantRepos: the check of    *)
(* the required arguments and the work around it.  What a function did is  *)
(* collected in effects.                                                   *)
(***************************************************************************)
Functions == {"syncCmd", "syncFileAcrossRepos", "queryForRelevantRepos"}

\* an argument: not given, the empty string, or a string
ArgValues == {undefined, <<>>, <<"q">>}

\* x == null
isNull(x) == x = undefined

\* !x for a string or undefined
falsy(x) == x = undefined \/ x = <<>>

ArgsInit ==
    /\ calledFn \in Functions
    /\ callArgs \in [query : ArgValues, cmd : ArgValues]
    /\ calledFn # "syncCmd" => callArgs.cmd = undefined
    /\ argPc = "start"
    /\ effects = <<>>
    /\ HistoryIdle
    /\ DisplayIdle
    /\ SyncCmdIdle
    /\ VariantIdle
    /\ SessionInit
    /\ RunIdle
    /\ FindIdle
    /\ ReplaceIdle
    /\ ApplyIdle

\* a step of one of the functions: nothing else changes
ArgsStep ==
    /\ UNCHANGED <<calledFn, callArgs>>
    /\ UNCHANGED <<sessionVars, runVars, findVars, replVars, applyVars, histVars, dispVars, cmdVars, variantVars>>

\* syncCmd: if (query == null) throw; if (cmd == null) throw
SyncCmdCheck ==
    /\ calledFn = "syncCmd" /\ argPc = "start"
    /\ argPc' = IF isNull(callArgs.query) \/ isNull(callArgs.cmd) THEN "raised" ELSE "list"
    /\ UNCHANGED effects
    /\ ArgsStep

\* syncFileAcrossRepos: if (!query) throw
SyncFileCheck ==
    /\ calledFn = "syncFileAcrossRepos" /\ argPc = "start"
    /\ argPc' = IF falsy(callArgs.query) THEN "raised" ELSE "list"
    /\ UNCHANGED effects
    /\ ArgsStep

\* queryForRelevantRepos starts with getTeam and getAllRepos
QueryStart ==
    /\ calledFn = "queryForRelevantRepos" /\ argPc = "start"
    /\ argPc' = "list"
    /\ UNCHANGED effects
    /\ ArgsStep

\* getAllRepos(await getTeam()): the repositories of the team are listed
ListRepos(listed) ==
    /\ argPc = "list"
    /\ effects' = Append(effects, [op |-> "list", repos |-> listed])
    /\ argPc' = "cache"
    /\ ArgsStep

\* updateGitterCache, getUpdatedGitterCache: every listed repository is cloned or pulled
UpdateCache ==
    /\ argPc = "cache"
    /\ effects' = Append(effects, [op |-> "cloneOrPull", repos |-> effects[1].repos])
    /\ argPc' = IF calledFn = "queryForRelevantRepos" THEN "check" ELSE "query"
    /\ ArgsStep

\* queryForRelevantRepos: if (!query) throw
QueryCheck ==
    /\ calledFn = "queryForRelevantRepos" /\ argPc = "check"
    /\ argPc' = IF falsy(callArgs.query) THEN "raised" ELSE "query"
    /\ UNCHANGED effects
    /\ ArgsStep

\* queryRepo in every listed repository: the query is executed, relevant are those
\* where it exits with zero
QueryRepos(relevant) ==
    /\ argPc = "query"
    /\ relevant \subseteq effects[1].repos
    /\ effects' = Append(effects, [op |-> "exec", repos |-> effects[1].repos])
                   \o <<[op |-> "relevant", repos |-> relevant]>>
    /\ argPc' = IF calledFn = "queryForRelevantRepos" THEN "done" ELSE "rest"
    /\ ArgsStep

\* the rest of syncCmd (the command in the target repositories, commit and push) and
\* of syncFileAcrossRepos (the file copied to the target repositories, commit and
\* push), for the targets selected among the relevant repositories
RestOfSync(targets, confirmResult) ==
    /\ argPc = "rest"
    /\ targets \subseteq effects[Len(effects)].repos
    /\ effects' = effects \o
          (IF ~confirmResult \/ targets = {} THEN <<>>
           ELSE <<[op |-> IF calledFn = "syncCmd" THEN "exec" ELSE "write", repos |-> targets],
                  [op |-> "git", repos |-> targets]>>)
    /\ argPc' = "done"
    /\ ArgsStep

ArgsNext ==
    \/ SyncCmdCheck
    \/ SyncFileCheck
    \/ QueryStart
    \/ \E listed \in SUBSET Repos : ListRepos(listed)
    \/ UpdateCache
    \/ QueryCheck
    \/ \E relevant \in SUBSET Repos : QueryRepos(relevant)
    \/ \E targets \in SUBSET Repos, confirmResult \in BOOLEAN : RestOfSync(targets, confirmResult)

SpecArgs == ArgsInit /\ [][ArgsNext]_vars

(***************************************************************************)
(* Interactive Review Engine: the display of one match.  render logs the   *)
(* lines of buildMatchDisplay and a hint line, clearDisplay erases         *)
(* displayLineCount terminal lines; a logged string takes one terminal     *)
(* line more for every line break in it.                                   *)
(***************************************************************************)
CONTEXT_LINES == 10

\* lines of a file whose match is displayed
MaxDisplayLines == 3

\* a line of the display: its colour, its mark after the line number, the number of
\* the file line it shows (0 when none), and its text
DisplayLine(colour, mark, lineNumber, text) ==
    [colour |-> colour, mark |-> mark, lineNumber |-> lineNumber, text |-> text]

\* the for loop of buildMatchDisplay: the lines of the file from startContext to
\* endContext
ContextLines(lines, match, expandedStartLine, expandedEndLine, excludeStart, excludeEnd) ==
    LET startContext == Max(0, expandedStartLine - 1 - CONTEXT_LINES)
        endContext == Min(Len(lines) - 1, expandedEndLine - 1 + CONTEXT_LINES)
        effectiveStartLine == IF excludeStart THEN match.startLine + 1 ELSE match.startLine
        effectiveEndLine == IF excludeEnd THEN match.endLine - 1 ELSE match.endLine
        row(lineNumber) ==
            LET isExcludedBoundary == \/ excludeStart /\ lineNumber = match.startLine
                                      \/ excludeEnd /\ lineNumber = match.endLine
                isOriginalMatch == lineNumber >= effectiveStartLine /\ lineNumber <= effectiveEndLine
                isExpandedLine == \/ lineNumber >= expandedStartLine /\ lineNumber < match.startLine
                                  \/ lineNumber > match.endLine /\ lineNumber <= expandedEndLine
            IN  IF isExcludedBoundary THEN DisplayLine("yellow", "~", lineNumber, lines[lineNumber])
                ELSE IF isOriginalMatch THEN DisplayLine("red", "-", lineNumber, lines[lineNumber])
                ELSE IF isExpandedLine THEN DisplayLine("magenta", "-", lineNumber, lines[lineNumber])
                ELSE DisplayLine("gray", " ", lineNumber, lines[lineNumber])
    IN  [k \in 1..(endContext - startContext + 1) |-> row(startContext + k)]

\* the preview of buildMatchDisplay after the lines of the file; raised when
\* getIndentation is called on a line the file does not have
PreviewLines(lines, match, expandedStartLine, expandedEndLine, replacement, excludeStart, excludeEnd, inline, startPat) ==
    IF /\ inline
       /\ match.startLine = match.endLine
       /\ expandedStartLine = match.startLine
       /\ expandedEndLine = match.endLine
    THEN [raised |-> FALSE,
          output |-> <<DisplayLine("none", "", 0, <<>>),
                       DisplayLine("green", "+", 0,
                           replaceAll(lines[match.startLine], startPat,
                                      IF replacement = undefinedText THEN <<>>
                                      ELSE join(replacement)))>>]
    ELSE IF replacement # undefinedText
    THEN LET indentSourceLine == IF excludeStart THEN match.startLine ELSE match.startLine - 1
             index == Max(0, indentSourceLine)
         IN  IF index + 1 > Len(lines) THEN [raised |-> TRUE, output |-> <<>>]
             ELSE LET indentedReplacement ==
                          applyIndentation(replacement, getIndentation(lines[index + 1]))
                  IN [raised |-> FALSE,
                      output |-> <<DisplayLine("none", "", 0, <<>>)>>
                                 \o [k \in DOMAIN indentedReplacement |->
                                       DisplayLine("green", "+", 0, indentedReplacement[k])]]
    ELSE [raised |-> FALSE,
          output |-> <<DisplayLine("none", "", 0, <<>>),
                       DisplayLine("gray", "deleted", 0, <<>>)>>]

\* buildMatchDisplay
buildMatchDisplay(lines, match, expandedStartLine, expandedEndLine, replacement, excludeStart, excludeEnd, inline, startPat) ==
    LET preview == PreviewLines(lines, match, expandedStartLine, expandedEndLine,
                                replacement, excludeStart, excludeEnd, inline, startPat)
    IN  [raised |-> preview.raised,
         output |-> IF preview.raised THEN <<>>
                    ELSE ContextLines(lines, match, expandedStartLine, expandedEndLine,
                                      excludeStart, excludeEnd) \o preview.output]

\* terminal lines log(line) writes for the lines of a display
RECURSIVE loggedLines(_)
loggedLines(output) ==
    IF output = <<>> THEN 0
    ELSE Len(split(Head(output).text)) + loggedLines(Tail(output))

\* the display of the match of dispArgs with the boundaries s and e
DisplayOf(s, e) ==
    buildMatchDisplay(dispArgs.content, dispArgs.match, s, e, dispArgs.replacement,
                      dispArgs.excludeStart, dispArgs.excludeEnd, dispArgs.inline,
                      dispArgs.startPattern)

DisplayInit ==
    /\ \E lines \in Strings(ApplyLinePool, 1..MaxDisplayLines), mode \in ApplyModes,
          replacement \in Replacements :
          LET matches == findMatches(lines, <<"s">>, mode.endPattern)
          IN \E k \in DOMAIN matches :
               /\ dispArgs = [content |-> lines, match |-> matches[k],
                              replacement |-> replacement, startPattern |-> <<"s">>,
                              endPattern |-> mode.endPattern,
                              excludeStart |-> mode.excludeStart,
                              excludeEnd |-> mode.excludeEnd, inline |-> mode.inline]
               /\ shownStart = matches[k].startLine
               /\ shownEnd = matches[k].endLine
    /\ dpc = "start"
    /\ shownStack = <<>>
    /\ displayLines = <<>>
    /\ displayLineCount = 0
    /\ termBefore = 0
    /\ termErased = 0
    /\ termWritten = 0
    /\ dispApplied = NotApplied
    /\ SyncCmdIdle
    /\ VariantIdle
    /\ HistoryIdle
    /\ ArgsIdle
    /\ SessionInit
    /\ RunIdle
    /\ FindIdle
    /\ ReplaceIdle
    /\ ApplyIdle

\* a step of the display: nothing else changes
DisplayStep ==
    /\ UNCHANGED dispArgs
    /\ UNCHANGED <<sessionVars, runVars, findVars, replVars, applyVars, histVars, argVars, cmdVars, variantVars>>

\* render with the boundaries s and e
Render(s, e) ==
    LET display == DisplayOf(s, e)
    IN  IF display.raised
        THEN /\ dpc' = "raised"
             /\ UNCHANGED <<displayLines, displayLineCount, termWritten>>
        ELSE /\ dpc' = "shown"
             /\ displayLines' = display.output
             /\ displayLineCount' = Len(display.output) + 1
             /\ termWritten' = loggedLines(display.output) + 1

\* clearDisplay(); render()
Redraw(s, e) ==
    /\ termBefore' = termWritten
    /\ termErased' = displayLineCount
    /\ Render(s, e)

\* the first render()
DisplayRender ==
    /\ dpc = "start"
    /\ Render(shownStart, shownEnd)
    /\ UNCHANGED <<shownStart, shownEnd, shownStack, termBefore, termErased, dispApplied>>
    /\ DisplayStep

\* key.name === 'down'
DisplayDown ==
    /\ dpc = "shown"
    /\ canMoveDown(shownEnd, dispArgs.content)
    /\ shownStack' = Append(shownStack, [start |-> shownStart, end |-> shownEnd])
    /\ shownEnd' = shownEnd + 1
    /\ Redraw(shownStart, shownEnd + 1)
    /\ UNCHANGED <<shownStart, dispApplied>>
    /\ DisplayStep

\* key.name === 'up'
DisplayUp ==
    /\ dpc = "shown"
    /\ canMoveUp(shownStart)
    /\ shownStack' = Append(shownStack, [start |-> shownStart, end |-> shownEnd])
    /\ shownStart' = shownStart - 1
    /\ Redraw(shownStart - 1, shownEnd)
    /\ UNCHANGED <<shownEnd, dispApplied>>
    /\ DisplayStep

\* _str === 'z' with an entry on the stack (the boundaries of a review that starts
\* at the span of the match differ from it only with an entry on the stack)
DisplayUndo ==
    /\ dpc = "shown"
    /\ shownStack # <<>>
    /\ shownStart' = shownStack[Len(shownStack)].start
    /\ shownEnd' = shownStack[Len(shownStack)].end
    /\ shownStack' = pop(shownStack)
    /\ Redraw(shownStack[Len(shownStack)].start, shownStack[Len(shownStack)].end)
    /\ UNCHANGED dispApplied
    /\ DisplayStep

\* key.name === 'return', and applyApprovedChanges on the match it approves alone
DisplayReturn ==
    /\ dpc = "shown"
    /\ dpc' = "applied"
    /\ LET approved == [startLine |-> shownStart, endLine |-> shownEnd,
                        matchedText |-> dispArgs.match.matchedText,
                        originalStartLine |-> dispArgs.match.startLine,
                        originalEndLine |-> dispArgs.match.endLine]
           applied == applyReplacements(dispArgs.content, <<approved>>, dispArgs.replacement,
                          dispArgs.excludeStart, dispArgs.excludeEnd, dispArgs.inline,
                          dispArgs.startPattern)
       IN dispApplied' = [done |-> TRUE, result |-> applied.result, copied |-> applied.copied]
    /\ UNCHANGED <<shownStart, shownEnd, shownStack, displayLines, displayLineCount,
                   termBefore, termErased, termWritten>>
    /\ DisplayStep

\* _str === 's'
DisplaySkip ==
    /\ dpc = "shown"
    /\ dpc' = "skipped"
    /\ UNCHANGED <<shownStart, shownEnd, shownStack, displayLines, displayLineCount,
                   termBefore, termErased, termWritten, dispApplied>>
    /\ DisplayStep

DisplayNext ==
    \/ DisplayRender
    \/ DisplayDown
    \/ DisplayUp
    \/ DisplayUndo
    \/ DisplayReturn
    \/ DisplaySkip

SpecDisplay == DisplayInit /\ [][DisplayNext]_vars

(***************************************************************************)
(* The simpler sync-replace variant (actions/sync-replace/sync-replace.ts) *)
(* and its comparison with the fuller one.                                 *)
(***************************************************************************)
\* the inner while loop of the simpler findMatches from the 0-based index j on:
\* the lines pushed to matchedLines and the end line found, 0 when none was
RECURSIVE SimpleInnerLoop(_, _, _, _)
SimpleInnerLoop(lines, endPat, j, matchedLines) ==
    IF j >= Len(lines) THEN [j |-> j, matchedLines |-> matchedLines, endLine |-> 0]
    ELSE IF includes(lines[j + 1], endPat)
         THEN [j |-> j, matchedLines |-> Append(matchedLines, lines[j + 1]), endLine |-> j + 1]
         ELSE SimpleInnerLoop(lines, endPat, j + 1, Append(matchedLines, lines[j + 1]))

\* the outer while loop of the simpler findMatches from the 0-based index i on
RECURSIVE SimpleFindLoop(_, _, _, _, _)
SimpleFindLoop(lines, startPat, endPat, i, matches) ==
    IF i >= Len(lines) THEN matches
    ELSE LET line == lines[i + 1] IN
         IF includes(line, startPat)
         THEN IF endPat = undefined
              THEN SimpleFindLoop(lines, startPat, endPat, i + 1,
                       Append(matches, [startLine |-> i + 1, endLine |-> i + 1,
                                        matchedText |-> <<line>>]))
              ELSE IF includes(line, endPat) /\ indexOf(line, endPat) > indexOf(line, startPat)
              THEN SimpleFindLoop(lines, startPat, endPat, i + 1,
                       Append(matches, [startLine |-> i + 1, endLine |-> i + 1,
                                        matchedText |-> <<line>>]))
              ELSE LET inner == SimpleInnerLoop(lines, endPat, i + 1, <<line>>)
                       startLine == i + 1
                       endLine == IF inner.endLine # 0 THEN inner.endLine ELSE i + 1
                   IN IF endLine > startLine \/ includes(lines[i + 1], endPat)
                      THEN SimpleFindLoop(lines, startPat, endPat, inner.j + 1,
                               Append(matches, [startLine |-> startLine, endLine |-> endLine,
                                                matchedText |-> inner.matchedLines]))
                      ELSE SimpleFindLoop(lines, startPat, endPat, i + 1, matches)
         ELSE SimpleFindLoop(lines, startPat, endPat, i + 1, matches)

\* findMatches of the simpler variant
simpleFindMatches(lines, startPat, endPat) == SimpleFindLoop(lines, startPat, endPat, 0, <<>>)

\* mutant of SimpleSpan: the excluded end line is kept also when the span is one line
SimpleSpanEndKept(lines, i, match, replacement, excludeStart, excludeEnd) ==
    LET effectiveStartLine == IF excludeStart THEN match.startLine + 1 ELSE match.startLine
        effectiveEndLine == IF excludeEnd THEN match.endLine - 1 ELSE match.endLine
        indentSourceLine == IF excludeStart THEN match.startLine ELSE match.startLine - 1
    IN  (IF excludeStart THEN <<lines[i + 1]>> ELSE <<>>)
        \o (IF replacement # undefinedText /\ effectiveStartLine <= effectiveEndLine
               THEN applyIndentation(replacement,
                        getIndentation(lines[Max(0, indentSourceLine) + 1]))
               ELSE <<>>)
        \o (IF excludeEnd THEN <<lines[match.endLine]>> ELSE <<>>)

\* what the simpler applyReplacements pushes for a span that starts at the 0-based
\* index i
SimpleSpan(lines, i, match, replacement, excludeStart, excludeEnd) ==
    LET effectiveStartLine == IF excludeStart THEN match.startLine + 1 ELSE match.startLine
        effectiveEndLine == IF excludeEnd THEN match.endLine - 1 ELSE match.endLine
        indentSourceLine == IF excludeStart THEN match.startLine ELSE match.startLine - 1
    IN  (IF excludeStart THEN <<lines[i + 1]>> ELSE <<>>)
        \o (IF replacement # undefinedText /\ effectiveStartLine <= effectiveEndLine
               THEN applyIndentation(replacement,
                        getIndentation(lines[Max(0, indentSourceLine) + 1]))
               ELSE <<>>)
        \o (IF excludeEnd /\ match.endLine > match.startLine
               THEN <<lines[match.endLine]>> ELSE <<>>)

\* the while loop of the simpler applyReplacements from the 0-based index i on
RECURSIVE SimpleApplyLoop(_, _, _, _, _, _, _, _)
SimpleApplyLoop(lines, sorted, i, matchIndex, result, replacement, excludeStart, excludeEnd) ==
    IF i >= Len(lines) THEN result
    ELSE IF matchIndex < Len(sorted) /\ i + 1 = sorted[matchIndex + 1].startLine
    THEN SimpleApplyLoop(lines, sorted, sorted[matchIndex + 1].endLine, matchIndex + 1,
             result \o SimpleSpan(lines, i, sorted[matchIndex + 1], replacement,
                                  excludeStart, excludeEnd),
             replacement, excludeStart, excludeEnd)
    ELSE SimpleApplyLoop(lines, sorted, i + 1, matchIndex, Append(result, lines[i + 1]),
                         replacement, excludeStart, excludeEnd)

\* applyReplacements of the simpler variant: the lines of result.join('\n')
simpleApplyReplacements(lines, matches, replacement, excludeStart, excludeEnd) ==
    Joined(SimpleApplyLoop(lines, sortedMatches(matches), 0, 0, <<>>,
                           replacement, excludeStart, excludeEnd))

\* the lists of spans taken from the matches from k on, in their order, with the
\* boundaries findMatches gave them
RECURSIVE unexpandedLists(_, _)
unexpandedLists(matches, k) ==
    IF k > Len(matches) THEN {<<>>}
    ELSE LET rest == unexpandedLists(matches, k + 1)
         IN rest \cup {<<matches[k]>> \o r : r \in rest}

\* the calls compared: findMatches on the contents and patterns of SpecFind,
\* applyReplacements on the contents, replacements and exclusions of SpecApply with
\* unexpanded spans and inline mode off
VariantInit ==
    /\ \/ \E lines \in Strings(FindLines, 1..MaxLines), startPat \in StartPatterns,
             endPat \in EndPatterns :
             subArgs = [fn |-> "findMatches", content |-> lines,
                        startPattern |-> startPat, endPattern |-> endPat]
       \/ \E lines \in Strings(ApplyLinePool, 1..MaxApplyLines), replacement \in Replacements,
             mode \in {a \in ApplyModes : ~a.inline} :
             \E matches \in unexpandedLists(findMatches(lines, <<"s">>, mode.endPattern), 1) :
                subArgs = [fn |-> "applyReplacements", content |-> lines,
                           matches |-> matches, replacement |-> replacement,
                           excludeStart |-> mode.excludeStart,
                           excludeEnd |-> mode.excludeEnd]
    /\ simpleOut = NotCalled
    /\ fullerOut = NotCalled
    /\ SessionInit
    /\ RunIdle
    /\ FindIdle
    /\ ReplaceIdle
    /\ ApplyIdle
    /\ HistoryIdle
    /\ ArgsIdle
    /\ DisplayIdle
    /\ SyncCmdIdle

\* a call of a variant: nothing else changes
VariantStep ==
    /\ UNCHANGED subArgs
    /\ UNCHANGED <<sessionVars, runVars, findVars, replVars, applyVars, histVars, argVars,
                   dispVars, cmdVars>>

\* the simpler variant is called
CallSimple ==
    /\ ~simpleOut.done
    /\ simpleOut' =
          [done |-> TRUE,
           value |-> IF subArgs.fn = "findMatches"
                     THEN simpleFindMatches(subArgs.content, subArgs.startPattern,
                                            subArgs.endPattern)
                     ELSE simpleApplyReplacements(subArgs.content, subArgs.matches,
                              subArgs.replacement, subArgs.excludeStart, subArgs.excludeEnd)]
    /\ UNCHANGED fullerOut
    /\ VariantStep

\* the fuller variant is called, with inline mode off
CallFuller ==
    /\ ~fullerOut.done
    /\ fullerOut' =
          [done |-> TRUE,
           value |-> IF subArgs.fn = "findMatches"
                     THEN findMatches(subArgs.content, subArgs.startPattern,
                                      subArgs.endPattern)
                     ELSE Joined(applyReplacements(subArgs.content, subArgs.matches,
                                     subArgs.replacement, subArgs.excludeStart,
                                     subArgs.excludeEnd, FALSE, <<>>).result)]
    /\ UNCHANGED simpleOut
    /\ VariantStep

VariantNext == CallSimple \/ CallFuller

SpecVariant == VariantInit /\ [][VariantNext]_vars

(***************************************************************************)
(* syncCmd after the query: getTargetRepos, runCommand over the target     *)
(* repositories one after the other, and finalCheckAndCommitPush.          *)
(***************************************************************************)
\* what runCommand returns for a repository: failed on a non-zero exit code,
\* dismissed without changes or when staging is declined, staged otherwise
outcomeOf(exitCode, changed, force, confirmResult) ==
    IF exitCode # 0 THEN "failed"
    ELSE IF changed = 0 THEN "dismissed"
    ELSE IF force \/ confirmResult THEN "staged"
    ELSE "dismissed"

\* mutant of afterOutcome: a failed command ends the batch
afterOutcomeStopOnFailed(outcome, otherRepos) ==
    IF outcome = "failed" THEN <<>> ELSE otherRepos

\* the repositories runCommand goes on with after a repository: otherRepos, whatever
\* the outcome
afterOutcome(outcome, otherRepos) == otherRepos

\* mutant of stagedRepos: every repository the command succeeded in
stagedReposNotFailed(relevantRepos, rs) ==
    FilterIn(relevantRepos, {rs[k][1] : k \in {h \in DOMAIN rs : rs[h][2] # "failed"}})

\* stagedRepos: the relevant repositories whose result is staged
stagedRepos(relevantRepos, rs) ==
    FilterIn(relevantRepos, {rs[k][1] : k \in {h \in DOMAIN rs : rs[h][2] = "staged"}})

\* syncCmd has found the relevant repositories
SyncCmdInit ==
    /\ syncPc = "targets"
    /\ \E force \in BOOLEAN, relevantRepos \in NoDupSeqs(Repos) :
          syncArgs = [force |-> force, relevantRepos |-> relevantRepos, targetRepos |-> <<>>]
    /\ toVisit = <<>>
    /\ results = <<>>
    /\ syncLog = <<>>
    /\ SessionInit
    /\ RunIdle
    /\ FindIdle
    /\ ReplaceIdle
    /\ ApplyIdle
    /\ HistoryIdle
    /\ ArgsIdle
    /\ DisplayIdle
    /\ VariantIdle

\* a step of syncCmd: nothing else changes
SyncCmdStep ==
    UNCHANGED <<sessionVars, runVars, findVars, replVars, applyVars, histVars, argVars,
                dispVars, variantVars>>

\* getTargetRepos with a checkbox response that holds 'all' or some repository (an
\* empty response asks again), then the first call of runCommand, which reads
\* repo.name of targetRepos[0]
GetTargetRepos(all, ticked) ==
    /\ syncPc = "targets"
    /\ all \/ ticked # {}
    /\ LET targetRepos == IF all THEN syncArgs.relevantRepos
                          ELSE FilterIn(syncArgs.relevantRepos, ticked)
       IN /\ ticked \subseteq Range(syncArgs.relevantRepos)
          /\ syncArgs' = [syncArgs EXCEPT !.targetRepos = targetRepos]
          /\ toVisit' = targetRepos
          /\ syncPc' = IF targetRepos = <<>> THEN "raised" ELSE "run"
    /\ UNCHANGED <<results, syncLog>>
    /\ SyncCmdStep

\* one call of runCommand for repo = toVisit[1] with otherRepos the rest: the
\* command exits with exitCode, the diff has changed files, the user answers the
\* staging question with confirmResult when it is asked
RunCommand(exitCode, changed, confirmResult) ==
    /\ syncPc = "run"
    /\ toVisit # <<>>
    /\ exitCode # 0 => changed = 0 /\ ~confirmResult
    /\ changed = 0 => ~confirmResult
    /\ LET repoName == Head(toVisit)
           otherRepos == Tail(toVisit)
           asked == exitCode = 0 /\ changed # 0 /\ ~syncArgs.force
           outcome == outcomeOf(exitCode, changed, syncArgs.force, confirmResult)
           next == afterOutcome(outcome, otherRepos)
       IN /\ syncLog' = syncLog
                \o <<[e |-> "exec", repo |-> repoName, exitCode |-> exitCode,
                      changed |-> IF exitCode = 0 THEN changed ELSE 0]>>
                \o (IF asked THEN <<[e |-> "confirmStage", repo |-> repoName,
                                     answer |-> confirmResult]>>
                    ELSE <<>>)
          /\ results' = Append(results, <<repoName, outcome>>)
          /\ toVisit' = next
          /\ syncPc' = IF next = <<>> THEN "summary" ELSE "run"
    /\ UNCHANGED syncArgs
    /\ SyncCmdStep

\* the command exited with zero and diffSummary or diff of the repository raises:
\* runCommand rejects and syncCmd with it
RunCommandDiffRaises ==
    /\ syncPc = "run"
    /\ toVisit # <<>>
    /\ syncLog' = Append(syncLog, [e |-> "exec", repo |-> Head(toVisit), exitCode |-> 0,
                                   changed |-> 0])
    /\ syncPc' = "raised"
    /\ UNCHANGED <<syncArgs, toVisit, results>>
    /\ SyncCmdStep

\* after runCommand: the staged repositories are listed, or none was staged
SyncSummary ==
    /\ syncPc = "summary"
    /\ syncPc' = IF stagedRepos(syncArgs.relevantRepos, results) # <<>> THEN "final" ELSE "done"
    /\ UNCHANGED <<syncArgs, toVisit, results, syncLog>>
    /\ SyncCmdStep

\* finalCheckAndCommitPush: the confirmation, and the commit message when accepted
FinalCheck(confirmResult) ==
    /\ syncPc = "final"
    /\ syncLog' = Append(syncLog, [e |-> "confirmFinal", repo |-> 0, answer |-> confirmResult])
    /\ syncPc' = IF confirmResult THEN "push" ELSE "done"
    /\ UNCHANGED <<syncArgs, toVisit, results>>
    /\ SyncCmdStep

\* the repositories whose add, commit and push ended
GitEnded == {syncLog[k].repo : k \in {h \in DOMAIN syncLog : syncLog[h].e = "git"}}

\* add('.').commit(commitMessage).push() of one staged repository ends, pushed or
\* with an error
SyncGit(repoName, ok) ==
    /\ syncPc = "push"
    /\ repoName \in Range(stagedRepos(syncArgs.relevantRepos, results))
    /\ repoName \notin GitEnded
    /\ syncLog' = Append(syncLog, [e |-> "git", repo |-> repoName, ok |-> ok])
    /\ UNCHANGED <<syncPc, syncArgs, toVisit, results>>
    /\ SyncCmdStep

\* Promise.all over the staged repositories has settled
SyncEnd ==
    /\ syncPc = "push"
    /\ GitEnded = Range(stagedRepos(syncArgs.relevantRepos, results))
    /\ syncPc' = IF \A k \in DOMAIN syncLog : syncLog[k].e = "git" => syncLog[k].ok
                    THEN "done" ELSE "rejected"
    /\ UNCHANGED <<syncArgs, toVisit, results, syncLog>>
    /\ SyncCmdStep

SyncCmdNext ==
    \/ \E all \in BOOLEAN, ticked \in SUBSET Repos : GetTargetRepos(all, ticked)
    \/ \E exitCode \in {0, 1}, changed \in {0, 1}, confirmResult \in BOOLEAN :
          RunCommand(exitCode, changed, confirmResult)
    \/ RunCommandDiffRaises
    \/ SyncSummary
    \/ \E confirmResult \in BOOLEAN : FinalCheck(confirmResult)
    \/ \E repoName \in Repos, ok \in BOOLEAN : SyncGit(repoName, ok)
    \/ SyncEnd

SpecSyncCmd == SyncCmdInit /\ [][SyncCmdNext]_vars

(***************************************************************************)
(* Properties of the Commit/Push Orchestrator and of the Session State     *)
(***************************************************************************)
\* staging exactly the tracked files in order, then the commit, then the push
C7_ExpectedGitOps(files) ==
    [i \in 1..(Len(files) + 2) |->
        IF i <= Len(files) THEN [op |-> "add", path |-> files[i]]
        ELSE IF i = Len(files) + 1 THEN [op |-> "commit", path |-> ""]
        ELSE [op |-> "push", path |-> ""]]

\* C1: after a commit that reached the push phase, the saved Session State holds the
\* unchanged tracked files of every repository whose add/commit/push failed and no
\* entry for a pushed repository; every repository was attempted whatever happened to
\* the others; when all succeed the state is empty.  Until then the file is untouched.
C1_RetrySemantics ==
    /\ pc = "commit:push" => modifiedFiles = state
    /\ lastOp = "commit:pushed" =>
          /\ \A r \in failedRepos :
                r \in DOMAIN modifiedFiles /\ modifiedFiles[r] = state[r]
          /\ \A r \in successfulRepos : r \notin DOMAIN modifiedFiles
          /\ \A r \in Range(reposWithChanges) :
                gitLog[r] # <<>> /\ r \in successfulRepos \cup failedRepos
          /\ failedRepos = {} => modifiedFiles = EmptyState

\* a commit in which one repository was pushed and another failed
C1_Witness ==
    /\ lastOp = "commit:pushed"
    /\ successfulRepos # {}
    /\ failedRepos # {}
    /\ DOMAIN modifiedFiles = failedRepos

\* C2: a commit whose first or second confirmation was declined leaves the Session
\* State as it was loaded and has issued no git add, commit or push.
C2_DeclineIsNoOp ==
    lastOp \in {"commit:aborted", "commit:abortedPush"} =>
        /\ modifiedFiles = state
        /\ DOMAIN modifiedFiles # {}
        /\ \A r \in Repos : gitLog[r] = <<>>

\* the second confirmation declined after a diff was shown
C2_Witness ==
    /\ lastOp = "commit:abortedPush"
    /\ Len(reposWithChanges) > 0
    /\ Cardinality(DOMAIN modifiedFiles) > 1

\* C3: every repository key of the persisted Session State has at least one tracked file.
C3_NoEmptyTrackedList ==
    \A r \in DOMAIN modifiedFiles : Len(modifiedFiles[r]) > 0

\* a review that undid every file of one repository and kept a file of another
C3_Witness ==
    /\ lastOp = "review:saved"
    /\ \E r \in DOMAIN state : r \notin DOMAIN modifiedFiles
    /\ DOMAIN modifiedFiles # {}

\* C7: the git operations of a repository are, in order, an add of each of its tracked
\* files, the commit and the push; nothing is issued after a failed operation, and a
\* pushed repository went through all of them.
C7_StageCommitPushOrder ==
    \A r \in Repos :
        LET log == gitLog[r] IN
        log # <<>> =>
            /\ r \in DOMAIN state
            /\ Len(log) <= Len(state[r]) + 2
            /\ \A i \in DOMAIN log :
                  /\ [op |-> log[i].op, path |-> log[i].path] = C7_ExpectedGitOps(state[r])[i]
                  /\ i < Len(log) => log[i].ok
            /\ r \in successfulRepos <=>
                  (Len(log) = Len(state[r]) + 2 /\ log[Len(log)].ok)
            /\ r \in failedRepos <=> ~log[Len(log)].ok

\* a repository with two tracked files pushed before another repository's first add
C7_Witness ==
    \E r, q \in Repos :
        /\ r \in successfulRepos
        /\ Len(state[r]) = 2
        /\ q \in Range(reposWithChanges)
        /\ gitLog[q] = <<>>

\* C8: a git operation is issued only after the first confirmation was accepted, then
\* the diff of every repository to push was shown, then the second confirmation was
\* accepted.
C8_TwoConfirmations ==
    (\E r \in Repos : gitLog[r] # <<>>) =>
        /\ Len(events) = Len(reposWithChanges) + 2
        /\ events[1].e = "confirm"
        /\ events[Len(events)].e = "confirmPush"
        /\ \A i \in 1..Len(reposWithChanges) :
              events[i + 1] = [e |-> "diff", repo |-> reposWithChanges[i]]
        /\ \A r \in Repos : gitLog[r] # <<>> => r \in Range(reposWithChanges)

\* a git operation issued after two diffs were shown
C8_Witness ==
    /\ \E r \in Repos : gitLog[r] # <<>>
    /\ Len(reposWithChanges) >= 2

(***************************************************************************)
(* Properties of the Batch Command Runner                                  *)
(***************************************************************************)
\* the repositories whose command is running
Running == {r \in DOMAIN statuses : statuses[r] = "running"}

\* C10: at most 4 repositories are running, and no more than there are repositories.
C10_BoundedConcurrency ==
    /\ Cardinality(Running) <= 4
    /\ Cardinality(Running) <= Cardinality(DOMAIN modifiedFiles)

\* four commands running, the fifth repository among them, after one command finished
C10_Witness ==
    /\ Cardinality(Running) = 4
    /\ Cardinality(DOMAIN statuses) > 4
    /\ doneCount > 0

(***************************************************************************)
(* Properties of the Match Finder                                          *)
(***************************************************************************)
\* C5: the spans findMatches returns have startLine <= endLine, lie inside the file,
\* and each starts after the end line of the one before it.
C5_NonOverlap ==
    found.done =>
        /\ \A k \in DOMAIN found.matches :
              /\ 1 <= found.matches[k].startLine
              /\ found.matches[k].startLine <= found.matches[k].endLine
              /\ found.matches[k].endLine <= Len(content)
        /\ \A k \in 1..(Len(found.matches) - 1) :
              found.matches[k].endLine < found.matches[k + 1].startLine

\* a multi-line span followed by another span
C5_Witness ==
    /\ found.done
    /\ Len(found.matches) >= 2
    /\ found.matches[1].startLine < found.matches[1].endLine

\* the start line n closes its own span as the specification has it: it contains the
\* end pattern strictly after the position of the start pattern
ClosedOnStartLine(n) ==
    /\ includes(content[n], endPattern)
    /\ indexOf(content[n], endPattern) > indexOf(content[n], startPattern)

\* line n was examined as a possible start and the scan went on to line n + 1 if any
ResumedAfter(n) ==
    \E k \in DOMAIN found.visited :
        /\ found.visited[k] = n - 1
        /\ n < Len(content) => (k < Len(found.visited) /\ found.visited[k + 1] = n)

C4_EveryApprovedSpanApplied ==
    \A k \in DOMAIN written :
        \A m \in DOMAIN written[k].approvedMatches :
            \A line \in written[k].approvedMatches[m].startLine
                          ..written[k].approvedMatches[m].endLine :
                line \notin written[k].copied

\* the matches of the repository of the loop without a decision
Undecided ==
    {<<i, j>> \in (DOMAIN changes) \X (1..MaxReviewLines) :
        /\ j \in DOMAIN changes[i].matches
        /\ ~\E d \in DOMAIN decisions :
               /\ decisions[d].file = changes[i].file
               /\ decisions[d].match = j
               /\ decisions[d].action \in {"apply", "skip"}}

\* C9: when a file of the repository of the loop has been written, every match of
\* every file of that repository has been resolved to apply or skip, and a match of
\* the written file was resolved to apply.
C9_WriteAfterReview ==
    \A k \in DOMAIN written :
        written[k].repo = repo =>
            /\ Undecided = {}
            /\ \E d \in DOMAIN decisions :
                   /\ decisions[d].file = written[k].file
                   /\ decisions[d].action = "apply"

\* C9 witness: a repository of two files is through its writes: one file was written,
\* the matches of the other were all skipped and it was not written
C9_Witness ==
    /\ rpc = "loop"
    /\ Len(changes) = 2
    /\ \E k \in DOMAIN written : written[k].repo = repo
    /\ \E i \in DOMAIN changes :
          /\ \A k \in DOMAIN written :
                 written[k].repo = repo => written[k].file # changes[i].file
          /\ \E d \in DOMAIN decisions :
                 decisions[d].file = changes[i].file /\ decisions[d].action = "skip"

(***************************************************************************)
(* Properties of the Batch Command Runner: completeness                    *)
(***************************************************************************)
\* C11: no repository is run twice, a runner that has finished has run every tracked
\* repository and left each in status done or failed whatever the exit codes were,
\* and once the workers are created the runner eventually finishes.
C11_RunnerCompleteness ==
    /\ [](NoDup(started))
    /\ [](runPc = "finished" =>
            /\ Range(started) = DOMAIN modifiedFiles
            /\ \A r \in DOMAIN modifiedFiles : statuses[r] \in {"done", "failed"})
    /\ (runPc = "workers") ~> (runPc = "finished")

\* C11 witness: the runner finished more repositories than it has workers, one of
\* them failed before the last one that succeeded was started
C11_Witness ==
    /\ runPc = "finished"
    /\ Len(started) > concurrency
    /\ statuses[started[1]] = "failed"
    /\ statuses[started[Len(started)]] = "done"

(***************************************************************************)
(* Properties of syncReplaceReview                                         *)
(***************************************************************************)
\* the files of a repository the user chose answer for in the review
Chosen(answer, r) == {events[i].file : i \in {j \in DOMAIN events :
                         events[j].e = answer /\ events[j].repo = r}}

\* the tracked files of a repository in the saved state
Tracked(r) == IF r \in DOMAIN modifiedFiles THEN Range(modifiedFiles[r]) ELSE {}

\* C12: when syncReplaceReview has saved, every file the user kept is tracked, every
\* file the user undid was checked out and is not tracked, and a repository whose
\* files were all undone is not a key of the saved state.
C12_ReviewKeepUndo ==
    lastOp = "review:saved" =>
        \A r \in DOMAIN state :
            /\ Chosen("keep", r) \subseteq Tracked(r)
            /\ \A f \in Chosen("undo", r) : <<r, f>> \in checkedOut /\ f \notin Tracked(r)
            /\ Range(state[r]) = Chosen("undo", r) => r \notin DOMAIN modifiedFiles

\* C12 witness: a review saved after the user kept one file and undid the other of
\* one repository and undid every file of another
C12_Witness ==
    /\ lastOp = "review:saved"
    /\ \E r \in DOMAIN state : Chosen("keep", r) # {} /\ Chosen("undo", r) # {}
    /\ \E r \in DOMAIN state : Range(state[r]) = Chosen("undo", r)

(***************************************************************************)
(* Properties of the Replacement Applier called on its own                 *)
(***************************************************************************)
\* the approved spans in the order of the pass
PassOrder == sortedMatches(applyArgs.matches)

\* no approved span reaches the start of the next one of the pass
Disjoint == \A k \in 1..(Len(PassOrder) - 1) : PassOrder[k].endLine < PassOrder[k + 1].startLine

\* what a span is replaced by as stated: the start line if excluded, the re-indented
\* replacement if there is one, the end line if excluded and not the start line
C13_Composition(lines, match) ==
    LET indentLine == Min(Len(lines), IF applyArgs.excludeStart
                                         THEN originalStartLine(match) + 1
                                         ELSE originalStartLine(match))
    IN  (IF applyArgs.excludeStart THEN <<lines[originalStartLine(match)]>> ELSE <<>>)
        \o (IF applyArgs.replacement # undefinedText
               THEN applyIndentation(applyArgs.replacement, getIndentation(lines[indentLine]))
               ELSE <<>>)
        \o (IF applyArgs.excludeEnd /\ originalEndLine(match) > originalStartLine(match)
               THEN <<lines[originalEndLine(match)]>> ELSE <<>>)

\* the lines from line i on with the spans from the k-th on replaced as stated
RECURSIVE C13_Expected(_, _, _)
C13_Expected(lines, i, k) ==
    IF i > Len(lines) THEN <<>>
    ELSE IF k <= Len(PassOrder) /\ PassOrder[k].startLine = i
         THEN C13_Composition(lines, PassOrder[k])
              \o C13_Expected(lines, PassOrder[k].endLine + 1, k + 1)
         ELSE <<lines[i]>> \o C13_Expected(lines, i + 1, k)

\* C13: with inline mode off, the new content has in place of the lines of every
\* approved span the start line if exclude-start was requested, then the re-indented
\* replacement text if one was supplied, then the end line if exclude-end was
\* requested and the span has more than one line.
C13_ReplacementComposition ==
    (newContent.done /\ ~applyArgs.inline /\ Disjoint) =>
        newContent.result = Joined(C13_Expected(applyArgs.content, 1, 1))

\* a span the review did not expand
Unexpanded(match) ==
    /\ match.startLine = originalStartLine(match)
    /\ match.endLine = originalEndLine(match)

\* the matched line with every occurrence of the start pattern replaced or removed
C14_Substituted(line) ==
    split(replaceAll(line, applyArgs.startPattern,
                     IF applyArgs.replacement = undefinedText THEN <<>>
                     ELSE join(applyArgs.replacement)))

\* the lines from line i on as stated for inline mode: the line of an unexpanded
\* one-line span is substituted in, any other span is replaced as a whole, every
\* other line is the original one
RECURSIVE C14_Expected(_, _, _)
C14_Expected(lines, i, k) ==
    IF i > Len(lines) THEN <<>>
    ELSE IF k <= Len(PassOrder) /\ PassOrder[k].startLine = i
         THEN (IF Unexpanded(PassOrder[k]) /\ PassOrder[k].startLine = PassOrder[k].endLine
                  THEN C14_Substituted(lines[i])
                  ELSE C13_Composition(lines, PassOrder[k]))
              \o C14_Expected(lines, PassOrder[k].endLine + 1, k + 1)
         ELSE <<lines[i]>> \o C14_Expected(lines, i + 1, k)

\* C14: in inline mode the new content differs from the original only in the lines of
\* the approved spans: the line of an unexpanded one-line span has every occurrence
\* of the start pattern replaced by the replacement text or removed, and inline
\* substitution is done for no other span.
C14_InlineScope ==
    (newContent.done /\ applyArgs.inline /\ Disjoint) =>
        newContent.result = Joined(C14_Expected(applyArgs.content, 1, 1))

\* a deletion of unexpanded spans found without an end pattern, searched again
DeletionRefound ==
    /\ refound.done
    /\ applyArgs.endPattern = undefined
    /\ applyArgs.replacement = undefinedText
    /\ ~applyArgs.inline
    /\ \A k \in DOMAIN applyArgs.matches : Unexpanded(applyArgs.matches[k])

\* the lines of the matches of the original content that were not approved, in order
RECURSIVE NotDeleted(_)
NotDeleted(matches) ==
    IF matches = <<>> THEN <<>>
    ELSE (IF \E k \in DOMAIN applyArgs.matches :
                 applyArgs.matches[k].startLine = Head(matches).startLine
             THEN <<>> ELSE <<Head(matches).matchedText>>)
         \o NotDeleted(Tail(matches))

\* C15: after the deletion of one-line spans found without an end pattern, the
\* search of the new content with the same start pattern finds exactly the matches
\* that were not deleted, and none when all were deleted.
C15_DeletionRoundTrip ==
    DeletionRefound =>
        LET matches == findMatches(applyArgs.content, applyArgs.startPattern, undefined)
        IN /\ [k \in DOMAIN refound.matches |-> refound.matches[k].matchedText]
                 = NotDeleted(matches)
           /\ Len(applyArgs.matches) = Len(matches) => refound.matches = <<>>

\* C15 witness: of three matches two were deleted, the search finds the third again
C15_Witness ==
    /\ DeletionRefound
    /\ Len(applyArgs.matches) = 2
    /\ Len(refound.matches) = 1

\* the longest prefix of a line that is whitespace only
C16_LeadingWhitespace(line) ==
    SubSeq(line, 1, CHOOSE n \in 0..Len(line) :
                        /\ \A h \in 1..n : line[h] \in Whitespace
                        /\ n < Len(line) => line[n + 1] \notin Whitespace)

\* the least length of leading whitespace among the non-blank lines of a text
C16_CommonIndent(text) ==
    LET lengths == {Len(C16_LeadingWhitespace(text[j])) :
                       j \in {h \in DOMAIN text : NonBlank(text[h])}}
    IN IF lengths = {} THEN 0 ELSE CHOOSE n \in lengths : \A h \in lengths : n <= h

\* one unexpanded one-line span is replaced by text, no exclusion, inline off
ReplacedAlone ==
    /\ newContent.done
    /\ ~applyArgs.inline /\ ~applyArgs.excludeStart /\ ~applyArgs.excludeEnd
    /\ applyArgs.replacement # undefinedText
    /\ Len(applyArgs.matches) = 1
    /\ Unexpanded(applyArgs.matches[1])
    /\ applyArgs.matches[1].startLine = applyArgs.matches[1].endLine

\* C16: when one unexpanded line with leading whitespace W is replaced by a text, the
\* new content has in its place, for every line of the text, W followed by that line
\* without the leading whitespace common to the non-blank lines of the text.
C16_IndentationPreserved ==
    ReplacedAlone =>
        LET lines == applyArgs.content
            text == applyArgs.replacement
            n == applyArgs.matches[1].startLine
            W == C16_LeadingWhitespace(lines[n])
            common == C16_CommonIndent(text)
        IN newContent.result =
              SubSeq(lines, 1, n - 1)
              \o [j \in DOMAIN text |-> W \o SubSeq(text[j], common + 1, Len(text[j]))]
              \o SubSeq(lines, n + 1, Len(lines))

\* C16 witness: a line with 4 leading spaces was replaced by a text of three lines
\* whose first line carries the least indentation: the first inserted line begins
\* with exactly 4 spaces
C16_Witness ==
    /\ ReplacedAlone
    /\ Len(applyArgs.replacement) = 3
    /\ LET n == applyArgs.matches[1].startLine
       IN /\ Len(C16_LeadingWhitespace(applyArgs.content[n])) = 4
          /\ Len(C16_LeadingWhitespace(newContent.result[n])) = 4
          /\ Len(newContent.result[n]) > 4

(***************************************************************************)
(* Properties of the Interactive Review Engine                             *)
(***************************************************************************)
\* a step that enters the review of a match
EntersReview ==
    /\ rpc' = "review"
    /\ <<repo, changeIdx, matchIdx>>' # <<repo, changeIdx, matchIdx>>

\* a pattern of the given direction and offset equals the trimmed content of the
\* line of the file at that offset from the span
C17_PatternMatches(lines, match, extras, position, offset) ==
    LET n == IF position = "above" THEN match.startLine - offset ELSE match.endLine + offset
    IN /\ n \in 1..Len(lines)
       /\ \E k \in DOMAIN extras :
             /\ extras[k].position = position
             /\ extras[k].offset = offset
             /\ extras[k].trimmedContent = trim(lines[n])

\* the number of patterns of a direction that match, in increasing offset, before the
\* first that does not
C17_Expansion(lines, match, extras, position) ==
    CHOOSE c \in 0..Len(lines) :
        /\ \A offset \in 1..c : C17_PatternMatches(lines, match, extras, position, offset)
        /\ ~C17_PatternMatches(lines, match, extras, position, c + 1)

\* C17: on entry to the review of a match each boundary has moved from the original
\* span by one line for every pattern of its direction that matches, in increasing
\* offset, up to the first one that does not match or lies outside the file.
C17_AutoExpansionRule ==
    [][EntersReview =>
          LET lines == reviewedChange'.originalContent
              match == reviewedMatch'
          IN /\ currentStartLine' =
                   match.startLine - C17_Expansion(lines, match, extraLines', "above")
             /\ currentEndLine' =
                   match.endLine + C17_Expansion(lines, match, extraLines', "below")
             /\ currentStartLine' <= match.startLine
             /\ currentEndLine' >= match.endLine]_vars

\* C17 witness: a review was entered with the span expanded below by a line that
\* equals the pattern only when trimmed
C17_Witness ==
    /\ rpc = "review"
    /\ undoStack = <<>>
    /\ currentEndLine = reviewedMatch.endLine + 1
    /\ reviewedChange.originalContent[currentEndLine] = <<" ", "x">>
    /\ \E k \in DOMAIN extraLines :
          /\ extraLines[k] = [trimmedContent |-> <<"x">>, position |-> "below", offset |-> 1]

\* the content of a file of the repository of the loop
ContentOf(file) ==
    changes[CHOOSE i \in DOMAIN changes : changes[i].file = file].originalContent

\* the patterns of one direction an approved span gave rise to
C18_Patterns(approvedMatch, file, position) ==
    filterPosition(computeExtraLines([startLine |-> approvedMatch.originalStartLine,
                                      endLine |-> approvedMatch.originalEndLine],
                                     approvedMatch.startLine, approvedMatch.endLine,
                                     ContentOf(file)),
                   position)

\* the lines next to a match have the trimmed contents of all the given patterns
C18_SameSurroundings(lines, match, patterns, position) ==
    /\ patterns # <<>>
    /\ \A k \in DOMAIN patterns :
          C17_PatternMatches(lines, match, patterns, position, patterns[k].offset)

\* C18: when the review of a match is entered, for every span approved with an
\* expansion earlier in the repository whose expansion lines have the same trimmed
\* content as the lines next to the match, the match is expanded by as many lines.
C18_ExpansionsStick ==
    [][(EntersReview /\ repo' = repo) =>
          LET lines == reviewedChange'.originalContent
              match == reviewedMatch'
          IN \A e \in DOMAIN approvedMatchesByFile' :
                \A a \in DOMAIN approvedMatchesByFile'[e].value :
                   LET above == C18_Patterns(approvedMatchesByFile'[e].value[a],
                                             approvedMatchesByFile'[e].key, "above")
                       below == C18_Patterns(approvedMatchesByFile'[e].value[a],
                                             approvedMatchesByFile'[e].key, "below")
                   IN /\ C18_SameSurroundings(lines, match, above, "above")
                         => currentStartLine' <= match.startLine - Len(above)
                      /\ C18_SameSurroundings(lines, match, below, "below")
                         => currentEndLine' >= match.endLine + Len(below)]_vars

\* the boundaries of the review
Boundaries == [start |-> currentStartLine, end |-> currentEndLine]

\* the span of the reviewed match as the finder found it
OriginalSpan == [start |-> reviewedMatch.startLine, end |-> reviewedMatch.endLine]

\* the boundaries the review of the match was entered with
EntrySpan ==
    LET lines == reviewedChange.originalContent
        above == C17_Expansion(lines, reviewedMatch, extraLines, "above")
        below == C17_Expansion(lines, reviewedMatch, extraLines, "below")
    IN [start |-> reviewedMatch.startLine - above, end |-> reviewedMatch.endLine + below]

\* one expand action leads from the boundaries before to the boundaries after
Expanded(before, after) ==
    \/ after.start = before.start /\ after.end = before.end + 1
    \/ after.start = before.start - 1 /\ after.end = before.end

\* the undo stack holds, oldest first, the boundaries before each expand action that
\* is not undone, the oldest being those at entry or, after a reset, the original span
C19_StackRecordsExpansions ==
    (rpc = "review") =>
        /\ (IF undoStack = <<>> THEN Boundaries ELSE undoStack[1]) \in {EntrySpan, OriginalSpan}
        /\ \A k \in DOMAIN undoStack :
              Expanded(undoStack[k], IF k = Len(undoStack) THEN Boundaries ELSE undoStack[k + 1])

\* a step inside the review of one match
C19_SameReview ==
    /\ rpc = "review" /\ rpc' = "review"
    /\ <<repo, changeIdx, matchIdx>>' = <<repo, changeIdx, matchIdx>>

\* C19: in the review of a match the undo stack records the boundaries before each
\* expand action not yet undone, starting from the boundaries at entry; a step that is
\* not an expand action is an undo: with a non-empty stack it restores the boundaries
\* before the most recent expand action not yet undone and forgets that action, with
\* an empty stack it sets the boundaries to the original span of the match, and it
\* does not happen when the stack is empty and the boundaries are the original span.
C19_Undo ==
    /\ [](C19_StackRecordsExpansions)
    /\ [][C19_SameReview =>
             \/ Expanded(Boundaries, Boundaries') /\ undoStack' = Append(undoStack, Boundaries)
             \/ /\ undoStack # <<>>
                /\ Boundaries' = undoStack[Len(undoStack)]
                /\ undoStack' = SubSeq(undoStack, 1, Len(undoStack) - 1)
             \/ /\ undoStack = <<>>
                /\ Boundaries # OriginalSpan
                /\ Boundaries' = OriginalSpan
                /\ undoStack' = <<>>]_vars

\* an automatic expansion was undone with an empty stack, and the match expanded again
C19_Witness ==
    /\ rpc = "review"
    /\ EntrySpan # OriginalSpan
    /\ Len(undoStack) = 2
    /\ undoStack[1] = OriginalSpan

\* the spans approved for a file, none when the file has none
C20_ApprovedFor(approved, file) ==
    IF MapHas(approved, file) THEN MapGet(approved, file) ELSE <<>>

\* C20: under force no review reads a key: the boundaries stay those of the automatic
\* expansion and the stack stays empty, and the only step of a review is the decision
\* Apply of the reviewed match with these boundaries.
C20_ForceApplies ==
    /\ []((rpc = "review" /\ params.force) => (undoStack = <<>> /\ Boundaries = EntrySpan))
    /\ [][(rpc = "review" /\ params.force) =>
             LET file == reviewedChange.file
                 before == C20_ApprovedFor(approvedMatchesByFile, file)
                 after == C20_ApprovedFor(approvedMatchesByFile', file)
             IN /\ decisions' = Append(decisions, [file |-> file, match |-> matchIdx,
                                                   action |-> "apply"])
                /\ Len(after) = Len(before) + 1
                /\ after[Len(after)].startLine = EntrySpan.start
                /\ after[Len(after)].endLine = EntrySpan.end
                /\ after[Len(after)].originalStartLine = reviewedMatch.startLine
                /\ after[Len(after)].originalEndLine = reviewedMatch.endLine]_vars

\* under force the second match of a file is in review, the first one applied
C20_Witness ==
    /\ rpc = "review" /\ params.force
    /\ matchIdx = 2
    /\ decisions # <<>>
    /\ decisions[Len(decisions)].action = "apply"

\* line n lies in one of the recorded spans
InRecordedSpan(n) ==
    \E k \in DOMAIN found.matches :
        found.matches[k].startLine <= n /\ n <= found.matches[k].endLine

\* C21: after findMatches recorded a span, the line examined next as a possible start is
\* the line following the end line of the span, when there is one; and every line that
\* contains the start pattern and lies in no recorded span was examined as a start.
C21_ResumesAfterSpan ==
    found.done =>
        /\ \A k \in DOMAIN found.matches :
              \E p \in DOMAIN found.visited :
                  /\ found.visited[p] = found.matches[k].startLine - 1
                  /\ found.matches[k].endLine < Len(content) =>
                        /\ p < Len(found.visited)
                        /\ found.visited[p + 1] = found.matches[k].endLine
        /\ \A n \in DOMAIN content :
              (includes(content[n], startPattern) /\ ~InRecordedSpan(n))
              => (n - 1) \in Range(found.visited)

\* the line contains the end pattern at a position strictly after that of the start
\* pattern
EndAfterStart(line) ==
    /\ includes(line, startPattern)
    /\ \E k \in 1..Len(line) :
          OccursAt(line, endPattern, k) /\ k - 1 > indexOf(line, startPattern)

\* C22: with an end pattern, a line examined as a start that contains the end pattern
\* strictly after the position of the start pattern is recorded as a span of that line
\* alone.
C22_SameLineEnd ==
    (found.done /\ endPattern # undefined) =>
        \A n \in DOMAIN content :
            ((n - 1) \in Range(found.visited) /\ EndAfterStart(content[n]))
            => \E k \in DOMAIN found.matches :
                  /\ found.matches[k].startLine = n
                  /\ found.matches[k].endLine = n
                  /\ found.matches[k].matchedText = <<content[n]>>

\* the diff loop of the commit skipped the listed repository r for its empty diff
EmptyDiffSeen(r) ==
    /\ lastOp \in {"commit:running", "commit:nochanges", "commit:abortedPush",
                    "commit:pushed"}
    /\ r \in DOMAIN state
    /\ r \in repos
    /\ r \notin Range(todo)
    /\ r \notin Range(reposWithChanges)

\* C23 as stated: a repository whose diff was empty has no git operation and, once
\* the commit has ended, no entry in the saved Session State.
C23_EmptyDiffDroppedAsStated ==
    \A r \in Repos :
        EmptyDiffSeen(r) =>
            /\ gitLog[r] = <<>>
            /\ lastOp \in {"commit:nochanges", "commit:abortedPush", "commit:pushed"}
                  => r \notin DOMAIN modifiedFiles

\* C23 amended: a repository whose diff was empty has no git operation; it has no
\* entry in the saved Session State once the commit found nothing to commit or ended
\* its push phase; when the second confirmation is declined the saved Session State
\* is left as loaded and the repository stays tracked.
C23_EmptyDiffDropped ==
    \A r \in Repos :
        EmptyDiffSeen(r) =>
            /\ gitLog[r] = <<>>
            /\ lastOp \in {"commit:nochanges", "commit:pushed"}
                  => r \notin DOMAIN modifiedFiles
            /\ lastOp = "commit:abortedPush"
                  => (modifiedFiles = state /\ r \in DOMAIN modifiedFiles)

\* a commit pushed one repository and skipped another for its empty diff
C23_Witness ==
    /\ lastOp = "commit:pushed"
    /\ successfulRepos # {}
    /\ \E r \in Repos : EmptyDiffSeen(r)

\* the repositories whose command exited with a code other than zero
ExitedNonZero == {r \in DOMAIN exitCodes : exitCodes[r] # 0}

\* C24: when syncReplaceRun has finished, the command of every tracked repository has
\* exited, a repository is done exactly when its exit code is zero and failed exactly
\* when it is not, and failedOutputs has one entry per repository with a non-zero exit
\* code.
C24_Outcome ==
    (runPc = "finished") =>
        /\ DOMAIN exitCodes = DOMAIN modifiedFiles
        /\ DOMAIN statuses = DOMAIN modifiedFiles
        /\ \A r \in DOMAIN statuses :
              /\ statuses[r] = "done" <=> exitCodes[r] = 0
              /\ statuses[r] = "failed" <=> exitCodes[r] # 0
        /\ Len(failedOutputs) = Cardinality(ExitedNonZero)
        /\ {failedOutputs[i].repo : i \in DOMAIN failedOutputs} = ExitedNonZero

\* a finished run of more repositories than workers, some succeeded and some failed
C24_Witness ==
    /\ runPc = "finished"
    /\ Cardinality(DOMAIN statuses) > concurrency
    /\ Cardinality(ExitedNonZero) >= 2
    /\ \E r \in DOMAIN exitCodes : exitCodes[r] = 0

\* the non-blank lines of an output
NonBlankLines(output) == IF output = <<>> THEN <<>> ELSE filterNonBlank(split(output))

\* the ways to combine two outputs line by line, each keeping its order
RECURSIVE Merges(_, _)
Merges(s, u) ==
    IF s = <<>> THEN {u}
    ELSE IF u = <<>> THEN {s}
    ELSE {<<Head(s)>> \o m : m \in Merges(Tail(s), u)}
         \cup {<<Head(u)>> \o m : m \in Merges(s, Tail(u))}

\* C25: for every failed repository the summary shows the last five non-blank
\* lines of its stdout and stderr combined.
C25_SummaryCombined ==
    (runPc = "finished") =>
        /\ Len(summary) = Len(failedOutputs)
        /\ \A i \in DOMAIN summary :
              LET out == NonBlankLines(failedOutputs[i].stdout)
                  err == NonBlankLines(failedOutputs[i].stderr)
              IN /\ summary[i].repo = failedOutputs[i].repo
                 /\ (out # <<>> \/ err # <<>>)
                       => \E m \in Merges(out, err) : summary[i].lines = sliceLast(m, 5)

\* what the summary shows instead: the last five non-blank lines of stderr, or of
\* stdout when stderr is empty, and "(no output)" when both are empty
SummaryOfOneStream ==
    (runPc = "finished") =>
        /\ Len(summary) = Len(failedOutputs)
        /\ \A i \in DOMAIN summary :
              LET out == NonBlankLines(failedOutputs[i].stdout)
                  err == NonBlankLines(failedOutputs[i].stderr)
              IN /\ summary[i].repo = failedOutputs[i].repo
                 /\ summary[i].lines = IF err # <<>> THEN sliceLast(err, 5)
                                       ELSE IF out # <<>> THEN sliceLast(out, 5)
                                       ELSE noOutput

\* C26: from its start to its end, whatever the command and the exit codes, the saved
\* Session State is the one syncReplaceRun loaded when it started.
C26_RunKeepsState ==
    /\ [][runPc # "off" => modifiedFiles' = modifiedFiles]_vars
    /\ []((runPc # "off") => modifiedFiles = state)

\* a finished run in which a command succeeded and another failed
C26_Witness ==
    /\ runPc = "finished"
    /\ \E r \in DOMAIN statuses : statuses[r] = "done"
    /\ \E r \in DOMAIN statuses : statuses[r] = "failed"
    /\ modifiedFiles # EmptyState

\* the files of repository r in the offers of a sequence of events, all of them or the
\* accepted ones, in order
RECURSIVE OfferedFiles(_, _, _)
OfferedFiles(evs, r, acceptedOnly) ==
    IF evs = <<>> THEN <<>>
    ELSE (IF /\ Head(evs).e = "offer"
             /\ Head(evs).repo = r
             /\ acceptedOnly => Head(evs).shouldAdd
             THEN <<Head(evs).file>> ELSE <<>>)
         \o OfferedFiles(Tail(evs), r, acceptedOnly)

Offered(evs, r) == OfferedFiles(evs, r, FALSE)

Accepted(evs, r) == OfferedFiles(evs, r, TRUE)

\* C27: in the iteration of syncReplaceRediff for a repository the files offered are,
\* in the order of the diff summary, the changed files that are not tracked, each once;
\* the save leaves the set of tracked repositories as it is and makes the list of each
\* the list it had followed by the files accepted for it.
C27_Rediff ==
    /\ [][(pc = "rediff" /\ todo # <<>>) =>
             LET r == Head(todo)
                 logged == SubSeq(events', Len(events) + 1, Len(events'))
             IN /\ logged # <<>>
                /\ logged[1].e = "diffSummary" /\ logged[1].repo = r
                /\ \A i \in 2..Len(logged) : logged[i].e = "offer" /\ logged[i].repo = r
                /\ Offered(logged, r) =
                      FilterIn(logged[1].files,
                               Range(logged[1].files) \ Range(modifiedFiles[r]))]_vars
    /\ [][(pc = "rediff" /\ todo = <<>>) =>
             /\ DOMAIN modifiedFiles' = DOMAIN modifiedFiles
             /\ \A r \in DOMAIN modifiedFiles :
                   modifiedFiles'[r] = modifiedFiles[r] \o Accepted(events, r)]_vars

\* a rediff saved after a changed file that was tracked was not offered, another was
\* accepted and a third declined
C27_Witness ==
    /\ lastOp = "rediff:saved"
    /\ \E i \in DOMAIN events : events[i].e = "offer" /\ events[i].shouldAdd
    /\ \E i \in DOMAIN events : events[i].e = "offer" /\ ~events[i].shouldAdd
    /\ \E i \in DOMAIN events :
          /\ events[i].e = "diffSummary"
          /\ Range(events[i].files) \ Range(Offered(events, events[i].repo)) # {}

\* the value has no character other than blanks
Blank(v) == \A i \in DOMAIN v : v[i] = " "

\* the list with the value removed
Without(es, v) == SelectSeq(es, LAMBDA e : e # v)

\* C28: starting from the empty list, an Input History field never has more than 20
\* entries nor the same entry twice, and has the last value entered first unless that
\* value is blank; entering a non-blank value puts it in front of the other entries,
\* which keep their order, the entries beyond the twentieth being dropped; entering a
\* blank value leaves the list as it is; and after k >= 20 distinct values were
\* entered and none again, the list is the last 20 of them, the newest first.
C28_HistoryBounded ==
    /\ [](/\ Len(historyEntries) <= 20
          /\ NoDup(historyEntries)
          /\ \A i \in DOMAIN historyEntries : ~Blank(historyEntries[i])
          /\ ~Blank(lastValue) => historyEntries[1] = lastValue
          /\ (readdCount = 0 /\ freshCount >= 20)
                => historyEntries = [i \in 1..20 |-> ValueOf(freshCount - i + 1)])
    /\ [][IF Blank(lastValue')
             THEN historyEntries' = historyEntries
             ELSE LET moved == <<lastValue'>> \o Without(historyEntries, lastValue')
                  IN historyEntries' = SubSeq(moved, 1, Min(20, Len(moved)))]_vars

\* 25 distinct values were entered, then a blank one: the list has the last 20
C28_Witness ==
    /\ freshCount = 25
    /\ readdCount = 0
    /\ Blank(lastValue)
    /\ Len(historyEntries) = 20
    /\ historyEntries[1] = ValueOf(25)
    /\ historyEntries[20] = ValueOf(6)

\* a value at the end of a full list was entered again and is first
C28_MovedToFront ==
    /\ readdCount = 1
    /\ Len(historyEntries) = 20
    /\ freshCount > 20
    /\ historyEntries[1] = lastValue
    /\ lastValue = ValueOf(freshCount - 19)

\* the required query, or the required command of syncCmd, is not given
MissingArgument ==
    \/ callArgs.query = undefined
    \/ calledFn = "syncCmd" /\ callArgs.cmd = undefined

\* C29: a function called without a required argument has listed no repositories,
\* cloned or pulled none, executed, written and committed nothing, at any time up to
\* and including the moment it raises its error.
C29_NoWorkBeforeError ==
    (calledFn \in Functions /\ MissingArgument) => effects = <<>>

\* C30: in a review the start boundary is at least 1 and at most the start line of
\* the match, and the end boundary is at least the end line of the match and at most
\* the number of lines of the file; no key moves a boundary by more than one line.
C30_BoundariesInFile ==
    /\ []((rpc = "review") =>
             /\ 1 <= currentStartLine
             /\ currentStartLine <= reviewedMatch.startLine
             /\ reviewedMatch.endLine <= currentEndLine
             /\ currentEndLine <= Len(reviewedChange.originalContent))
    /\ [][C19_SameReview =>
             /\ currentStartLine' >= currentStartLine - 1
             /\ currentEndLine' <= currentEndLine + 1]_vars

\* the boundaries were moved to the first and to the last line of a file, both away
\* from the span of the match
C30_Witness ==
    /\ rpc = "review"
    /\ currentStartLine = 1
    /\ currentStartLine < reviewedMatch.startLine
    /\ currentEndLine = Len(reviewedChange.originalContent)
    /\ currentEndLine > reviewedMatch.endLine
    /\ undoStack # <<>>


(***************************************************************************)
(* Properties of the display of a match                                    *)
(***************************************************************************)
\* the display was redrawn: clearDisplay ran after a render
Redrawn == dpc \in {"shown", "raised", "applied", "skipped"} /\ termBefore > 0

\* C31: on every boundary change clearDisplay erases as many terminal lines as the
\* previous render wrote (the lines of the display and the hint line), whatever
\* the span, the replacement, the exclusion flags and the inline mode
C31_NoResidualLines ==
    Redrawn => termErased = termBefore

\* numbers of the file lines the display shows with the mark and one of the colours
Marked(mark, colours) ==
    {displayLines[k].lineNumber : k \in {h \in DOMAIN displayLines :
        displayLines[h].mark = mark /\ displayLines[h].colour \in colours}}

\* the lines the display previews with "+"
RECURSIVE PlusLines(_)
PlusLines(output) ==
    IF output = <<>> THEN <<>>
    ELSE (IF Head(output).mark = "+" THEN split(Head(output).text) ELSE <<>>)
         \o PlusLines(Tail(output))

\* what the applier put in the place of the lines shownStart..shownEnd
AppliedSpan ==
    SubSeq(dispApplied.result, shownStart,
           Len(dispApplied.result) - (Len(dispArgs.content) - shownEnd))

\* what the display announces for that place: a kept start boundary, the previewed
\* lines, a kept end boundary
AnnouncedSpan ==
    LET kept == Marked("~", {"yellow"})
        first == dispArgs.match.startLine
        last == dispArgs.match.endLine
    IN  (IF first \in kept THEN <<dispArgs.content[first]>> ELSE <<>>)
        \o PlusLines(displayLines)
        \o (IF last \in kept /\ last # first THEN <<dispArgs.content[last]>> ELSE <<>>)

\* C34: once a span is approved, the lines the display marks as removed (original or
\* expanded) are the lines absent from the applied output, the lines it marks as
\* kept boundary or context are retained, and the "+" lines of the preview are the
\* lines the applier inserts
C34_PreviewAgrees ==
    dpc = "applied" =>
        /\ Marked(" ", {"gray"}) = dispApplied.copied
        /\ Marked("-", {"red", "magenta"}) \cup Marked("~", {"yellow"}) = shownStart..shownEnd
        /\ AppliedSpan = AnnouncedSpan

(***************************************************************************)
(* Properties of syncReplace: when the Session State is persisted          *)
(***************************************************************************)
\* the file of a write is tracked in the Session State s
TrackedIn(s, w) == w.repo \in DOMAIN s /\ w.file \in Range(s[w.repo])

\* the state file is written by the step that ends the loop over the repositories,
\* and by no other
SavedAtTheEnd == [][modifiedFiles' # modifiedFiles => rpc = "loop" /\ rpc' = "done"]_vars

\* after a completed invocation every file it wrote is tracked in the state file
CompletedIsTracked ==
    rpc = "done" => \A k \in DOMAIN written : TrackedIn(modifiedFiles, written[k])

C33_SimplerIsSubset ==
    (simpleOut.done /\ fullerOut.done) => simpleOut.value = fullerOut.value

\* C33 witness: both appliers replaced a span of three lines or more, keeping its
\* excluded start and end lines
C33_Witness ==
    /\ simpleOut.done /\ fullerOut.done
    /\ subArgs.fn = "applyReplacements"
    /\ Len(subArgs.matches) > 0
    /\ subArgs.excludeStart /\ subArgs.excludeEnd
    /\ subArgs.replacement # undefinedText
    /\ \E k \in DOMAIN subArgs.matches : subArgs.matches[k].endLine > subArgs.matches[k].startLine + 1
    /\ simpleOut.value # subArgs.content

(***************************************************************************)
(* Properties of syncReplace: what a completed invocation tracks           *)
(***************************************************************************)
\* the files the Session State s tracks for the repository r
TrackedFiles(s, r) == IF r \in DOMAIN s THEN Range(s[r]) ELSE {}

\* the files the invocation wrote in the repository r
WrittenFiles(r) == {written[k].file : k \in {h \in DOMAIN written : written[h].repo = r}}

\* the files of the repository of the loop with an approved match
ApprovedFiles ==
    {decisions[d].file : d \in {h \in DOMAIN decisions : decisions[h].action = "apply"}}

RaisedInGit == {r \in Repos : \E k \in DOMAIN gitLog[r] : ~gitLog[r][k].ok}

\* the tracked repositories the team listing does not hold
Unlisted == DOMAIN state \ repos

\* C36: after a commit that went through its push phase the saved Session State
\* holds the repositories one of whose git calls raised an error, with the files
\* they tracked, and no other: not the pushed ones, not those with an empty diff,
\* not those missing from the team listing
C36_KeepsOnlyFailed ==
    lastOp = "commit:pushed" =>
        /\ DOMAIN modifiedFiles = RaisedInGit
        /\ \A r \in RaisedInGit : modifiedFiles[r] = state[r]
        /\ \A r \in Unlisted : r \notin DOMAIN modifiedFiles

\* C36 witness: a push phase is over in which a repository failed, and a tracked
\* repository that the listing does not hold was dropped
C36_Witness ==
    /\ lastOp = "commit:pushed"
    /\ RaisedInGit # {}
    /\ Unlisted # {}

(***************************************************************************)
(* Properties of syncReplaceReview: files without a diff to show           *)
(***************************************************************************)
\* the files of a repository whose diff was empty or could not be obtained
NotShown(r) == Chosen("nodiff", r) \cup Chosen("error", r)

\* C37: when syncReplaceReview has saved, a tracked file whose diff was empty or
\* could not be obtained is not in the saved state, was not put to the user and
\* was not checked out; the saved state tracks no repository and no file that the
\* loaded state did not track
C37_ReviewDropsUnshown ==
    lastOp = "review:saved" =>
        /\ DOMAIN modifiedFiles \subseteq DOMAIN state
        /\ \A r \in DOMAIN state :
              /\ Tracked(r) \subseteq Range(state[r])
              /\ \A f \in NotShown(r) :
                    /\ f \notin Tracked(r)
                    /\ f \notin Chosen("keep", r) \cup Chosen("undo", r)
                    /\ <<r, f>> \notin checkedOut

\* C37 witness: a review saved in which one file had an empty diff, the diff of
\* another could not be obtained, and a third file was kept
C37_Witness ==
    /\ lastOp = "review:saved"
    /\ \E r \in DOMAIN state : Chosen("nodiff", r) # {}
    /\ \E r \in DOMAIN state : Chosen("error", r) # {}
    /\ \E r \in DOMAIN state : Chosen("keep", r) # {}

(***************************************************************************)
(* Properties of the Session State: no path tracked twice                  *)
(***************************************************************************)
\* C38: whatever new, rediff, review and commit operations were completed since the
\* Session State was empty, no repository's list of tracked files holds a path twice
C38_NoDuplicateTracked ==
    \A r \in DOMAIN modifiedFiles :
        \A i, j \in DOMAIN modifiedFiles[r] :
            modifiedFiles[r][i] = modifiedFiles[r][j] => i = j

\* C38 witness: a rediff saved after the user accepted a changed file for a
\* repository that tracked another file, which a search had approved before
C38_Witness ==
    /\ lastOp = "rediff:saved"
    /\ \E r \in DOMAIN modifiedFiles :
          /\ Len(modifiedFiles[r]) > 1
          /\ Accepted(events, r) # <<>>
          /\ \E f \in Range(modifiedFiles[r]) : f \notin Range(Offered(events, r))

(***************************************************************************)
(* Properties of syncCmd                                                   *)
(***************************************************************************)
\* the commands run so far, in their order
Executed == SelectSeq(syncLog, LAMBDA ev : ev.e = "exec")

\* runCommand has returned to syncCmd
Returned == syncPc \in {"summary", "final", "push", "done", "rejected"}

\* C39: runCommand runs the command in the selected repositories one after the other
\* in the selected order and has one outcome for each of them, staged, failed or
\* dismissed, when it returns; a non-zero exit code makes the outcome of that
\* repository failed and the command is run in the repositories after it all the same
C39_ContinuesPastFailures ==
    /\ Len(results) = Len(Executed) - (IF syncPc = "raised" /\ Executed # <<>> THEN 1 ELSE 0)
    /\ Len(results) <= Len(syncArgs.targetRepos)
    /\ \A k \in DOMAIN results :
          /\ results[k][1] = syncArgs.targetRepos[k]
          /\ Executed[k].repo = syncArgs.targetRepos[k]
          /\ results[k][2] \in {"staged", "failed", "dismissed"}
          /\ Executed[k].exitCode # 0 => results[k][2] = "failed"
    /\ \A k \in DOMAIN Executed :
          Executed[k].exitCode # 0 /\ k < Len(syncArgs.targetRepos) =>
              syncPc = "run" \/ Len(Executed) > k
    /\ Returned => Len(results) = Len(syncArgs.targetRepos)

\* C39 witness: runCommand returned after the command failed in the first selected
\* repository and was staged in a later one
C39_Witness ==
    /\ Returned
    /\ Len(results) > 1
    /\ results[1][2] = "failed"
    /\ \E k \in DOMAIN results : k > 1 /\ results[k][2] = "staged"

\* the position of the accepted final confirmation in the log, 0 when there is none
FinalAccepted ==
    IF \E k \in DOMAIN syncLog : syncLog[k].e = "confirmFinal" /\ syncLog[k].answer
       THEN CHOOSE k \in DOMAIN syncLog : syncLog[k].e = "confirmFinal" /\ syncLog[k].answer
       ELSE 0

\* the repository r was staged rightly: its command exited with zero, its diff had
\* changes, and staging was accepted or force is set
RightlyStaged(r) ==
    /\ \E k \in DOMAIN results : results[k] = <<r, "staged">>
    /\ \E k \in DOMAIN syncLog :
          /\ syncLog[k].e = "exec" /\ syncLog[k].repo = r
          /\ syncLog[k].exitCode = 0 /\ syncLog[k].changed # 0
    /\ \/ syncArgs.force
       \/ \E k \in DOMAIN syncLog :
             syncLog[k].e = "confirmStage" /\ syncLog[k].repo = r /\ syncLog[k].answer

\* C40: add, commit and push is issued only in a repository that was staged (zero exit
\* code, changed files, staging accepted or force set) and only after the final
\* confirmation was accepted; the final confirmation is asked once a repository is
\* staged, with force as without, and without a staged repository nothing is asked
\* and nothing committed
C40_PushesOnlyConfirmedStaged ==
    /\ \A k \in DOMAIN syncLog :
          syncLog[k].e = "git" =>
              /\ RightlyStaged(syncLog[k].repo)
              /\ FinalAccepted # 0 /\ FinalAccepted < k
    /\ \A k \in DOMAIN results : results[k][2] = "staged" => RightlyStaged(results[k][1])
    /\ syncPc \in {"push", "done", "rejected"} =>
          ((\E k \in DOMAIN results : results[k][2] = "staged")
              <=> (\E k \in DOMAIN syncLog : syncLog[k].e = "confirmFinal"))

\* C40 witness: with force set a repository was pushed after the final confirmation
\* was accepted, and a repository without changes was not
C40_Witness ==
    /\ syncPc = "done"
    /\ syncArgs.force
    /\ GitEnded # {}
    /\ \E k \in DOMAIN results : results[k][2] = "dismissed" /\ results[k][1] \notin GitEnded

====
